---- MODULE Spec2Model ----
(***************************************************************************)
(* Model of workshop_downloader.py: the transport retry loop (http_get /   *)
(* http_post), exact-match selection over catalog search hits, the         *)
(* resolution cascade and download retry loop of run_one_task, and the     *)
(* worker pool / progress slots / result collection of run_batch.          *)
(*                                                                         *)
(* Texts (keywords, titles) are sequences of one-character tokens; the     *)
(* token "&#32;" stands for the HTML entity of a space.  URLs and file     *)
(* names are opaque strings.                                               *)
(***************************************************************************)
EXTENDS Integers, Sequences, FiniteSets, TLC

VARIABLES
    \* ---- http_get / http_post (one call) ----
    h_method,       \* "GET" | "POST" | "idle"
    h_retries,      \* the retries argument
    h_i,            \* loop variable i of  for i in range(max(0, retries) + 1)
    h_pc,           \* "try" | "sleep" | "returned" | "raised" | "idle"
    h_last_error,   \* last_error (0 = None)
    h_ret,          \* the returned body (0 = nothing returned)
    h_log,          \* history: the requests and sleeps of the call, in order
    \* ---- find_exact_catalog_result (one call) ----
    x_search_text,  \* the search_text argument
    x_results,      \* what find_catalog_results returned: the hits' titles
    x_pc,           \* "call" | "returned" | "idle"
    x_ret,          \* index of the returned row in x_results (0 = None)
    \* ---- run_batch / run_one_task ----
    keywords,       \* the keywords argument
    appid,          \* 0 = None (global search)
    retries,        \* the retries argument
    workers,        \* the workers argument
    only_get_link,  \* the only_get_link argument
    task,           \* per submitted keyword occurrence: the task's local state
    progress_state, \* the shared progress_state dict (under progress_lock)
    results,        \* the results list of run_batch
    files,          \* per task: the bytes written through its handle of the destination file
    main_pc,        \* "collect" | "join" | "force" | "summary" | "returned" | "raised" |
                    \* "shutdown" | "exited" | "idle"
    reporter,       \* reporter_thread, stop_event and reporter_meta
    batch_log,      \* what render_batch_progress has logged
    mapping,        \* the batch report file in out_dir
    \* ---- the aggregates of render_batch_progress ----
    a_tasks,        \* progress_state["tasks"]: slot -> phase, downloaded, total_size, speed
    a_pc,           \* "call" | "rendered" | "idle"
    a_out,          \* total_dl, total_known, total_speed, remain_known, eta
    \* ---- parse_direct_url (one call) ----
    p_text,         \* the html_text argument: the links of the document, in order
    p_pc,           \* "call" | "returned" | "idle"
    p_ret,          \* the returned URL (NoUrl = None)
    \* ---- the locks of a running batch ----
    progress_lock,  \* the thread that holds progress_lock ("free" = none)
    PRINT_LOCK,     \* the thread that holds PRINT_LOCK ("free" = none)
    thread_at,      \* per thread: the statements it has still to run in its current call
    \* ---- the rotation of render_batch_progress ----
    r_active,       \* the active slots, the most recently updated first
    r_offset,       \* progress_state["offset"]
    r_show          \* the slots of the ACTV lines of the last emission

httpVars  == <<h_method, h_retries, h_i, h_pc, h_last_error, h_ret, h_log>>
exactVars == <<x_search_text, x_results, x_pc, x_ret>>
reportVars == <<reporter, batch_log, mapping>>
batchVars == <<keywords, appid, retries, workers, only_get_link, task,
               progress_state, results, files, main_pc, reportVars>>
aggVars   == <<a_tasks, a_pc, a_out>>
parseVars == <<p_text, p_pc, p_ret>>
lockVars  == <<progress_lock, PRINT_LOCK, thread_at>>
rotVars   == <<r_active, r_offset, r_show>>
vars      == <<httpVars, exactVars, batchVars, aggVars, parseVars, lockVars, rotVars>>

-----------------------------------------------------------------------------
(* Bounds of the model *)

MaxHttpRetries == 2
MaxTextLen     == 2
MaxRetries     == 1
MaxWorkers     == 2
MaxChunks      == 2

\* A Content-Length, in chunks, of which every chunk ends on a multiple of 10 %.
DecileLength == 10

-----------------------------------------------------------------------------
(* Small helpers *)

Max(a, b) == IF a >= b THEN a ELSE b

RECURSIVE SeqsUpTo(_, _)
SeqsUpTo(S, n) ==
    IF n = 0 THEN {<<>>}
    ELSE LET shorter == SeqsUpTo(S, n - 1)
         IN  shorter \cup {Append(s, c) : s \in {t \in shorter : Len(t) = n - 1}, c \in S}

-----------------------------------------------------------------------------
(* Texts *)

Tokens == {"a", "A", " ", "&#32;"}

IsSpace(c) == c = " "

RECURSIVE LStrip(_)
LStrip(s) == IF s # <<>> /\ IsSpace(Head(s)) THEN LStrip(Tail(s)) ELSE s

RECURSIVE RStrip(_)
RStrip(s) ==
    IF s # <<>> /\ IsSpace(s[Len(s)]) THEN RStrip(SubSeq(s, 1, Len(s) - 1)) ELSE s

\* str.strip()
Strip(s) == RStrip(LStrip(s))

LowerChar(c) == IF c = "A" THEN "a" ELSE c

\* str.lower()
Lower(s) == [k \in 1..Len(s) |-> LowerChar(s[k])]

UnescapeChar(c) ==
    CASE c = "&#32;" -> " "
      [] OTHER       -> c

\* html.unescape()
Unescape(s) == [k \in 1..Len(s) |-> UnescapeChar(s[k])]

\* re.sub(r"\s+", " ", value)
RECURSIVE CollapseSpaces(_)
CollapseSpaces(s) ==
    IF s = <<>> THEN <<>>
    ELSE IF IsSpace(Head(s)) /\ Tail(s) # <<>> /\ IsSpace(Head(Tail(s)))
         THEN CollapseSpaces(Tail(s))
         ELSE <<Head(s)>> \o CollapseSpaces(Tail(s))

normalize_exact_text(text) == CollapseSpaces(Unescape(Lower(Strip(text))))

\* The raw comparison a fuzzy (substring) matcher would make.
IsInfix(small, big) ==
    \E k \in 0..(Len(big) - Len(small)) : SubSeq(big, k + 1, k + Len(small)) = small

Texts == SeqsUpTo(Tokens, MaxTextLen)

-----------------------------------------------------------------------------
(* find_exact_catalog_result: the index of the selected row, 0 for None *)

RECURSIVE FirstEqualFrom(_, _, _)
FirstEqualFrom(rows, key, k) ==
    IF k > Len(rows) THEN 0
    ELSE IF normalize_exact_text(rows[k]) = key THEN k
    ELSE FirstEqualFrom(rows, key, k + 1)

RECURSIVE FirstContainingFrom(_, _, _)
FirstContainingFrom(rows, key, k) ==
    IF k > Len(rows) THEN 0
    ELSE IF IsInfix(key, normalize_exact_text(rows[k])) THEN k
    ELSE FirstContainingFrom(rows, key, k + 1)

find_exact_catalog_result_fuzzy(rows, search_text) ==
    IF rows = <<>> THEN 0
    ELSE FirstContainingFrom(rows, normalize_exact_text(search_text), 1)

find_exact_catalog_result(rows, search_text) ==
    IF rows = <<>> THEN 0
    ELSE FirstEqualFrom(rows, normalize_exact_text(search_text), 1)

\* search_text is clean_keyword's result: stripped and not empty (line 636).
SearchTexts == {t \in Texts : t # <<>> /\ Strip(t) = t}

\* A search page with no, one or two hits.
HitLists == {<<>>} \cup {<<t>> : t \in Texts} \cup {<<t, u>> : t \in Texts, u \in Texts}

IdleExact == x_search_text = <<>> /\ x_results = <<>> /\ x_pc = "idle" /\ x_ret = 0

InitExactVars ==
    /\ x_search_text \in SearchTexts
    /\ x_results \in HitLists
    /\ x_pc = "call"
    /\ x_ret = 0

FindExact ==
    /\ x_pc = "call"
    /\ x_ret' = find_exact_catalog_result(x_results, x_search_text)
    /\ x_pc' = "returned"
    /\ UNCHANGED <<x_search_text, x_results>>
    /\ UNCHANGED <<httpVars, batchVars, aggVars, parseVars, lockVars, rotVars>>

-----------------------------------------------------------------------------
(* http_get / http_post: bounded retry with a fixed backoff *)

Bodies == {1, 2}      \* response bodies a successful request may return
ErrIds == {1, 2}      \* exceptions a failed request may raise

\* range(max(0, retries) + 1)
HttpAttemptsOneMore(r) == Max(0, r) + 2
HttpAttempts(r) == Max(0, r) + 1

\* if i < retries: time.sleep(1)
HttpShouldSleep(i, r) == i < r

IdleHttp ==
    /\ h_method = "idle" /\ h_retries = 0 /\ h_i = 0 /\ h_pc = "idle"
    /\ h_last_error = 0 /\ h_ret = 0 /\ h_log = <<>>

InitHttpVars ==
    /\ h_method \in {"GET", "POST"}
    /\ h_retries \in -1..MaxHttpRetries
    /\ h_i = 0
    /\ h_pc = "try"
    /\ h_last_error = 0
    /\ h_ret = 0
    /\ h_log = <<>>

\* The next iteration of the for loop, or  raise last_error  after it.
HttpLoopNext(i, r) == IF i + 1 < HttpAttempts(r) THEN "try" ELSE "raised"

\* try: ... opener.open(req) ... return resp.read().decode()
HttpRequestOk ==
    /\ h_pc = "try"
    /\ \E body \in Bodies :
          /\ h_ret' = body
          /\ h_log' = Append(h_log, [ev |-> "request", attempt |-> h_i, err |-> 0])
    /\ h_pc' = "returned"
    /\ UNCHANGED <<h_method, h_retries, h_i, h_last_error>>
    /\ UNCHANGED <<exactVars, batchVars, aggVars, parseVars, lockVars, rotVars>>

\* except Exception as e: last_error = e; if i < retries: (sleep)
HttpRequestFails ==
    /\ h_pc = "try"
    /\ \E e \in ErrIds :
          /\ h_last_error' = e
          /\ h_log' = Append(h_log, [ev |-> "request", attempt |-> h_i, err |-> e])
    /\ IF HttpShouldSleep(h_i, h_retries)
         THEN h_pc' = "sleep" /\ h_i' = h_i
         ELSE h_pc' = HttpLoopNext(h_i, h_retries) /\ h_i' = h_i + 1
    /\ UNCHANGED <<h_method, h_retries, h_ret>>
    /\ UNCHANGED <<exactVars, batchVars, aggVars, parseVars, lockVars, rotVars>>

\* time.sleep(1), then the next iteration
HttpSleep ==
    /\ h_pc = "sleep"
    /\ h_log' = Append(h_log, [ev |-> "sleep", attempt |-> h_i, err |-> 0])
    /\ h_pc' = HttpLoopNext(h_i, h_retries)
    /\ h_i' = h_i + 1
    /\ UNCHANGED <<h_method, h_retries, h_last_error, h_ret>>
    /\ UNCHANGED <<exactVars, batchVars, aggVars, parseVars, lockVars, rotVars>>

-----------------------------------------------------------------------------
(* run_one_task: keyword cleaning and the resolution cascade *)

\* "(" and ")" stand for the full-width parentheses of clean_keyword's pattern.
RECURSIVE AfterClose(_)
AfterClose(s) ==
    IF s = <<>> THEN <<>> ELSE IF Head(s) = ")" THEN Tail(s) ELSE AfterClose(Tail(s))

HasClose(s) == \E k \in 1..Len(s) : s[k] = ")"

\* re.sub of the parenthetical pattern: leftmost, non-overlapping
RECURSIVE RemoveParens(_)
RemoveParens(s) ==
    IF s = <<>> THEN <<>>
    ELSE IF Head(s) = "(" /\ HasClose(Tail(s)) THEN RemoveParens(AfterClose(Tail(s)))
    ELSE <<Head(s)>> \o RemoveParens(Tail(s))

\* lines 272-275: strip, remove the parenthetical annotations, strip again
clean_keyword_keeps_notes(text) == Strip(text)
clean_keyword(text) == Strip(RemoveParens(Strip(text)))

NoError == [kind |-> "", step |-> "", attempt |-> 0]
TransportError(step) == [kind |-> "TransportError", step |-> step, attempt |-> 0]
DownloadError(n) == [kind |-> "DownloadError", step |-> "download", attempt |-> n]
EmptyKeyword == [kind |-> "Empty keyword", step |-> "", attempt |-> 0]
NoExactMatch == [kind |-> "No exact match or direct URL", step |-> "", attempt |-> 0]

\* What the network answers to the lookups of one cascade run.
SteamTitle == <<"S">>
ItemUrl    == "steamcommunity/filedetails"
ModsUrl    == "modsbase/direct.zip"
MirrorUrl  == "steamworkshop.download/direct.zip"

StepOutcomes   == {"raise", "none", "found"}
ModsOutcomes   == {"raise_get", "url_get", "raise_post", "none", "url_post"}
MirrorOutcomes == {"raise_first", "url_first", "raise_second", "none", "url_second"}

\* Catalog answers to the free-text search for search_text: no hit, only a
\* superset title, a superset title before the exact one, the exact one in
\* another letter case.
ExactTags == {"empty", "longer", "longer_same", "same"}

ExactAnswer(tag, search_text) ==
    LET longer == search_text \o <<" ", "A">>
        same   == Lower(search_text)
    IN  CASE tag = "empty"       -> <<>>
          [] tag = "longer"      -> <<longer>>
          [] tag = "longer_same" -> <<longer, same>>
          [] OTHER               -> <<same>>

Net(steam, cat, cat_title, mods1, mirror, exact_raise, exact, mods2) ==
    [steam |-> steam, cat |-> cat, cat_title |-> cat_title, mods1 |-> mods1,
     mirror |-> mirror, exact_raise |-> exact_raise, exact |-> exact, mods2 |-> mods2]

\* The answers of the exact-match path.  An answer is listed once: the answers
\* to lookups that the answers before them rule out are left at a fixed value.
ExactNets ==
    {<<TRUE, "empty", "none">>}
    \cup {<<FALSE, ex, "none">> : ex \in {"empty", "longer"}}
    \cup {<<FALSE, ex, m>> : ex \in {"longer_same", "same"}, m \in ModsOutcomes}

\* The answers of the scoped path, each listed once.
ScopedNets ==
    {<<s, "none", <<>>, "none", "none">> : s \in {"raise", "none"}}
    \cup {<<"found", "raise", <<>>, "none", "none">>}
    \cup {<<"found", "none", <<>>, "none", mi>> : mi \in MirrorOutcomes}
    \cup {<<"found", "found", ct, m, "none">> :
            ct \in {<<>>, <<"C">>}, m \in ModsOutcomes \ {"none"}}
    \cup {<<"found", "found", ct, "none", mi>> :
            ct \in {<<>>, <<"C">>}, mi \in MirrorOutcomes}

AllNets ==
    {Net(a[1], a[2], a[3], a[4], a[5], b[1], b[2], b[3]) : a \in ScopedNets, b \in ExactNets}

\* The answers explored for the tasks of a batch: the search fails, finds no
\* exact title, or finds one whose mod-host page holds the direct URL.
BatchNets ==
    {Net("none", "none", <<>>, "none", "none", TRUE, "empty", "none"),
     Net("none", "none", <<>>, "none", "none", FALSE, "empty", "none"),
     Net("none", "none", <<>>, "none", "none", FALSE, "same", "url_get")}

\* The local state of one cascade run: the lookups issued so far with what
\* each gave (history), result["title"], result["workshop_url"], direct, and a
\* raised exception.
CascadeStart ==
    [trace |-> <<>>, title |-> <<>>, workshop_url |-> "", direct |-> "",
     raised |-> FALSE, error |-> NoError]

Issue(c, step, out) ==
    [c EXCEPT !.trace = Append(@, [step |-> step, out |-> out, bytes |-> 0])]
Raise(c, step) ==
    [Issue(c, step, "raise") EXCEPT !.raised = TRUE, !.error = TransportError(step)]
Or(a, b) == IF a # <<>> THEN a ELSE b

\* resolve_direct_download_url: GET the mod-host page, extract; else POST the
\* hidden form and extract again
resolve_direct_download_url(c, m) ==
    CASE m = "raise_get" -> Raise(c, "mods_get")
      [] m = "url_get"   -> [Issue(c, "mods_get", "url") EXCEPT !.direct = ModsUrl]
      [] OTHER ->
           LET got == Issue(c, "mods_get", "none") IN
           CASE m = "raise_post" -> Raise(got, "mods_post")
             [] m = "url_post"   -> [Issue(got, "mods_post", "url") EXCEPT !.direct = ModsUrl]
             [] OTHER            -> Issue(got, "mods_post", "none")

\* resolve_steamworkshopdownload_url: POST the item URL to the mirror, extract;
\* else POST the item/app pair to its API and extract
resolve_steamworkshopdownload_url(c, m) ==
    CASE m = "raise_first" -> Raise(c, "mirror_first")
      [] m = "url_first"   -> [Issue(c, "mirror_first", "url") EXCEPT !.direct = MirrorUrl]
      [] OTHER ->
           LET first == Issue(c, "mirror_first", "none") IN
           CASE m = "raise_second" -> Raise(first, "mirror_second")
             [] m = "url_second"   ->
                  [Issue(first, "mirror_second", "url") EXCEPT !.direct = MirrorUrl]
             [] OTHER              -> Issue(first, "mirror_second", "none")

\* if not direct: (mirror)      -- lines 661-669
MirrorAlways(c) == TRUE
MirrorWanted(c) == c.direct = ""

\* lines 643-669: the scoped path
ScopedPath(c, search_text, net) ==
    CASE net.steam = "raise" -> Raise(c, "steam_search")
      [] net.steam = "none"  -> Issue(c, "steam_search", "none")
      [] OTHER ->
           LET item == [Issue(c, "steam_search", "found") EXCEPT
                           !.title = Or(SteamTitle, search_text),
                           !.workshop_url = ItemUrl]
           IN  IF net.cat = "raise" THEN Raise(item, "catalog_by_id")
               ELSE LET afterHit ==
                          IF net.cat = "found"
                          THEN resolve_direct_download_url(
                                   [Issue(item, "catalog_by_id", "found") EXCEPT
                                       !.title = Or(net.cat_title, @)], net.mods1)
                          ELSE Issue(item, "catalog_by_id", "none")
                    IN  IF afterHit.raised THEN afterHit
                        ELSE IF MirrorWanted(afterHit)
                             THEN resolve_steamworkshopdownload_url(afterHit, net.mirror)
                             ELSE afterHit

\* lines 671-675: the exact-match path
ExactPath(c, search_text, net) ==
    IF net.exact_raise THEN Raise(c, "exact_search")
    ELSE LET rows == ExactAnswer(net.exact, search_text)
             hit  == find_exact_catalog_result(rows, search_text)
         IN  IF hit # 0
             THEN resolve_direct_download_url(
                      [Issue(c, "exact_search", "found") EXCEPT
                          !.title = Or(rows[hit], Or(@, search_text))], net.mods2)
             ELSE Issue(c, "exact_search", "none")

\* if appid:        -- line 643
ScopePresent(ap) == ap # 0

\* if not direct:   -- line 671
ExactWanted(c) == c.direct = ""

\* lines 640-675
RunCascadeSwallowsScoped(ap, search_text, net) ==
    LET scoped == IF ScopePresent(ap) THEN ScopedPath(CascadeStart, search_text, net)
                  ELSE CascadeStart
    IN  IF ExactWanted(scoped)
        THEN ExactPath([scoped EXCEPT !.raised = FALSE, !.error = NoError], search_text, net)
        ELSE scoped
RunCascade(ap, search_text, net) ==
    LET scoped == IF ScopePresent(ap) THEN ScopedPath(CascadeStart, search_text, net)
                  ELSE CascadeStart
    IN  IF scoped.raised THEN scoped
        ELSE IF ExactWanted(scoped) THEN ExactPath(scoped, search_text, net)
        ELSE scoped

-----------------------------------------------------------------------------
(* run_one_task and run_batch *)

Tasks == 1..Len(keywords)

FilePath == "out_dir/name.zip"

\* lines 625-633: the result a task starts from
NewResultAssumedOk(kw) ==
    [keyword |-> kw, ok |-> TRUE, title |-> <<>>, url |-> "", workshop_url |-> "",
     file |-> "", error |-> NoError]
NewResult(kw) ==
    [keyword |-> kw, ok |-> FALSE, title |-> <<>>, url |-> "", workshop_url |-> "",
     file |-> "", error |-> NoError]

NewTask(kw) ==
    [pc |-> "queued", result |-> NewResult(kw), trace |-> <<>>, i |-> 0,
     last_error |-> NoError,
     downloaded |-> 0, total_size |-> 0, mark |-> 1, logged |-> FALSE,
     samples |-> <<>>]

NewSlot == [phase |-> "queued", downloaded |-> 0, total_size |-> 0]

\* return result
Return(t, res) == [t EXCEPT !.pc = "returned", !.result = res]

\* except Exception as e: result["error"] = str(e); return result  (712-714)
TaskExceptPropagates(t, e) == [t EXCEPT !.pc = "raised"]
TaskExcept(t, e) == Return(t, [t.result EXCEPT !.error = e])

\* progress_hook is passed only to a multi-keyword download batch (line 855)
HookPresent == (~only_get_link) /\ Len(keywords) > 1

\* on_progress(kw, payload), under progress_lock
on_progress(ps, kw, payload) ==
    IF kw \notin DOMAIN ps.tasks THEN ps
    ELSE [ps EXCEPT !.tasks[kw] =
            [phase      |-> IF payload.phase # "" THEN payload.phase ELSE @.phase,
             downloaded |-> payload.downloaded,
             total_size |-> payload.total_size]]

Emit(ps, kw, payload) == IF HookPresent THEN on_progress(ps, kw, payload) ELSE ps

\* The samples the running invocation of the downloader has passed to its
\* progress_hook (history; none without a hook).
Sent(t, payload) == IF HookPresent THEN [t EXCEPT !.samples = Append(@, payload)] ELSE t

\* lines 527-537: the start sample
StartSampleAsResolving(total) == [phase |-> "resolving", downloaded |-> 0, total_size |-> total]
StartSample(total) == [phase |-> "start", downloaded |-> 0, total_size |-> total]

\* lines 563-573, 580-590: the sample of a chunk
ChunkSample(downloaded, total) ==
    [phase |-> "downloading", downloaded |-> downloaded, total_size |-> total]

\* lines 597-608: the done sample
DoneSampleAsDownloading(downloaded, total) ==
    [phase |-> "downloading", downloaded |-> downloaded, total_size |-> total]
DoneSampleOfLastLogged(downloaded, total) ==
    [phase |-> "done", downloaded |-> Max(0, downloaded - 1), total_size |-> total]
DoneSample(downloaded, total) ==
    [phase |-> "done", downloaded |-> downloaded, total_size |-> total]

\* ThreadPoolExecutor(max_workers=max(1, workers))    -- line 853
PoolSizeUnclamped(w) == Max(1, w) + 1
PoolSizeAsGiven(w) == w
PoolSize(w) == Max(1, w)

Running(t) == t.pc \in {"running", "download", "streaming"}

\* if not direct:   -- line 677
CascadeFailedIfNoHit(c) == c.direct = "" /\ c.title = <<>>
CascadeFailed(c) == c.direct = ""

\* A pool thread takes the next work item of the executor's FIFO queue.
StartTask(n) ==
    /\ main_pc \in {"collect", "shutdown"}
    /\ task[n].pc = "queued"
    /\ \A m \in 1..(n - 1) : task[m].pc # "queued"
    /\ Cardinality({m \in Tasks : Running(task[m])}) < PoolSize(workers)
    /\ task' = [task EXCEPT ![n].pc = "running"]
    /\ UNCHANGED <<keywords, appid, retries, workers, only_get_link,
                   progress_state, results, files, main_pc>>
    /\ UNCHANGED <<aggVars, httpVars, exactVars, reportVars, parseVars, lockVars, rotVars>>

\* lines 634-688: clean the keyword, run the cascade, stop on failure or in
\* link-only mode, else enter the download loop
Resolve(n, nets) ==
    /\ task[n].pc = "running"
    /\ LET t == task[n]
           search_text == clean_keyword(keywords[n])
       IN  IF search_text = <<>>
           THEN task' = [task EXCEPT ![n] = Return(t, [t.result EXCEPT !.error = EmptyKeyword])]
           ELSE \E net \in nets :
                  LET c  == RunCascade(appid, search_text, net)
                      t1 == [t EXCEPT !.trace = @ \o c.trace,
                                      !.result.title = c.title,
                                      !.result.workshop_url = c.workshop_url]
                  IN  task' = [task EXCEPT ![n] =
                        IF c.raised THEN TaskExcept(t1, c.error)
                        ELSE IF CascadeFailed(c)
                        THEN Return(t1, [t1.result EXCEPT !.error = NoExactMatch])
                        ELSE IF only_get_link
                        THEN Return(t1, [t1.result EXCEPT !.url = c.direct, !.ok = TRUE])
                        ELSE [t1 EXCEPT !.pc = "download", !.result.url = c.direct, !.i = 0]]
    /\ UNCHANGED <<keywords, appid, retries, workers, only_get_link,
                   progress_state, results, files, main_pc>>
    /\ UNCHANGED <<aggVars, httpVars, exactVars, reportVars, parseVars, lockVars, rotVars>>

\* for i in range(max(0, retries) + 1):    -- line 690
TaskAttemptsOneMore(r) == Max(0, r) + 2
TaskAttempts(r) == Max(0, r) + 1

\* The outcome of the running attempt and the bytes it wrote are kept in its
\* history entry.
Close(t, out) == [t EXCEPT !.trace[Len(t.trace)].out = out]
Wrote(t) == [t EXCEPT !.trace[Len(t.trace)].bytes = @ + 1]

\* Lines 703-708: the attempt raised e.  last_error = e, sleep if i < retries,
\* then the next iteration;  after the last one  raise last_error  (caught at 712).
AttemptFailedReresolve(t) ==
    LET e  == DownloadError(t.i + 1)
        t1 == [t EXCEPT !.last_error = e,
                        !.downloaded = 0, !.total_size = 0, !.mark = 1, !.logged = FALSE,
                        !.samples = <<>>]
    IN  IF t.i + 1 < TaskAttempts(retries)
        THEN [t1 EXCEPT !.pc = "running", !.i = t.i + 1]
        ELSE TaskExcept(t1, e)
AttemptFailed(t) ==
    LET e  == DownloadError(t.i + 1)
        t1 == [t EXCEPT !.last_error = e,
                        !.downloaded = 0, !.total_size = 0, !.mark = 1, !.logged = FALSE,
                        !.samples = <<>>]
    IN  IF t.i + 1 < TaskAttempts(retries)
        THEN [t1 EXCEPT !.pc = "download", !.i = t.i + 1]
        ELSE TaskExcept(t1, e)

\* The bytes the server delivered in attempt a before the body ended or broke.
Payload(a, len) == [k \in 1..len |-> [attempt |-> a, k |-> k]]

\* opener.open(req) raises: the destination file is not opened
DlOpenFails(n) ==
    /\ task[n].pc = "download"
    /\ task' = [task EXCEPT ![n] =
          AttemptFailed([@ EXCEPT !.trace = Append(@, [step |-> "download", out |-> "connfail", bytes |-> 0])])]
    /\ UNCHANGED <<keywords, appid, retries, workers, only_get_link,
                   progress_state, results, files, main_pc>>
    /\ UNCHANGED <<aggVars, httpVars, exactVars, reportVars, parseVars, lockVars, rotVars>>

\* open(file_path, "wb")
OpenAppend(content) == content
OpenTruncate(content) == <<>>

\* lines 515-537: the response and the file are open, the start sample is sent
DlOpen(n, totals) ==
    /\ task[n].pc = "download"
    /\ \E total \in totals :
          /\ task' = [task EXCEPT ![n] =
                Sent([@ EXCEPT !.pc = "streaming",
                          !.trace = Append(@, [step |-> "download", out |-> "open", bytes |-> 0]),
                          !.downloaded = 0, !.total_size = total, !.mark = 1,
                          !.logged = FALSE, !.samples = <<>>],
                     StartSample(total))]
          /\ progress_state' = Emit(progress_state, keywords[n], StartSample(total))
    /\ files' = [files EXCEPT ![n] = OpenTruncate(@)]
    /\ UNCHANGED <<keywords, appid, retries, workers, only_get_link, results, main_pc>>
    /\ UNCHANGED <<aggVars, httpVars, exactVars, reportVars, parseVars, lockVars, rotVars>>

\* next_percent_mark is 0.1 (line 522) plus 0.1 per pass of line 577, in binary
\* floating point: 0.1, 0.2, 0.30000000000000004, 0.4, 0.5, 0.6, 0.7,
\* 0.7999999999999999, 0.8999999999999999, 0.9999999999999999, 1.0999999999999999.
\* The marks, counted in tenths, whose value is above the float of mark / 10:
MarkAbove == {3}

\* downloaded / total_size >= next_percent_mark    -- lines 550, 576.  The
\* quotient is the float nearest to the fraction, which for a fraction of
\* mark / 10 exactly is the float of mark / 10.
MarkReached(mark, downloaded, total) ==
    \/ downloaded * 10 > mark * total
    \/ downloaded * 10 = mark * total /\ mark \notin MarkAbove

\* while next_percent_mark <= 1.0 and downloaded / total_size >= next_percent_mark
\* (next_percent_mark counted in tenths)
RECURSIVE AdvanceMark(_, _, _)
AdvanceMark(mark, downloaded, total) ==
    IF mark <= 10 /\ MarkReached(mark, downloaded, total)
    THEN AdvanceMark(mark + 1, downloaded, total) ELSE mark

\* lines 540-593: one non-empty chunk is read and written; a sample is sent if
\* the time or the percent condition holds.  timer: 1.2 s or more have passed
\* since last_log_ts, which is 0.0 until the first sample of the download.
DlChunkAt(n, timer) ==
    /\ task[n].pc = "streaming"
    /\ task[n].downloaded < Max(MaxChunks, task[n].total_size)
    /\ LET t == task[n]
           downloaded == t.downloaded + 1
           should_log_time == (~t.logged) \/ timer
           should_log_percent ==
               t.total_size # 0 /\ MarkReached(t.mark, downloaded, t.total_size)
       IN  IF should_log_time \/ should_log_percent
           THEN /\ task' = [task EXCEPT ![n] =
                      Sent([Wrote(@) EXCEPT !.downloaded = downloaded, !.logged = TRUE,
                                !.mark = IF t.total_size > 0
                                         THEN AdvanceMark(t.mark, downloaded, t.total_size)
                                         ELSE t.mark],
                           ChunkSample(downloaded, t.total_size))]
                /\ progress_state' = Emit(progress_state, keywords[n],
                      ChunkSample(downloaded, t.total_size))
           ELSE /\ task' = [task EXCEPT ![n] = [Wrote(@) EXCEPT !.downloaded = downloaded]]
                /\ UNCHANGED progress_state
    /\ files' = [files EXCEPT ![n] =
          Append(@, [attempt |-> task[n].i + 1, k |-> task[n].downloaded + 1])]
    /\ UNCHANGED <<keywords, appid, retries, workers, only_get_link, results, main_pc>>
    /\ UNCHANGED <<aggVars, httpVars, exactVars, reportVars, parseVars, lockVars, rotVars>>

DlChunk(n) == \E timer \in BOOLEAN : DlChunkAt(n, timer)

\* resp.read or f.write raises in the middle of the transfer
DlCut(n) ==
    /\ task[n].pc = "streaming"
    /\ task' = [task EXCEPT ![n] = AttemptFailed(Close(@, "cut"))]
    /\ UNCHANGED <<keywords, appid, retries, workers, only_get_link,
                   progress_state, results, files, main_pc>>
    /\ UNCHANGED <<aggVars, httpVars, exactVars, reportVars, parseVars, lockVars, rotVars>>

\* last_error = None; break    -- lines 701-702
LastErrorKept(e) == e
LastErrorAfterSuccess(e) == NoError

\* lines 541-542, 595-608, 701-711: end of the body, the done sample is sent,
\* the attempt loop is left and the task returns ok unless last_error is set
DlEof(n) ==
    /\ task[n].pc = "streaming"
    /\ progress_state' = Emit(progress_state, keywords[n],
          DoneSample(task[n].downloaded, task[n].total_size))
    /\ task' = [task EXCEPT ![n] =
          LET t == [Sent(Close(@, "ok"), DoneSample(task[n].downloaded, task[n].total_size))
                      EXCEPT !.last_error = LastErrorAfterSuccess(@)]
          IN  IF t.last_error # NoError THEN TaskExcept(t, t.last_error)
              ELSE Return(t, [t.result EXCEPT !.file = FilePath, !.ok = TRUE])]
    /\ UNCHANGED <<keywords, appid, retries, workers, only_get_link, results, files, main_pc>>
    /\ UNCHANGED <<aggVars, httpVars, exactVars, reportVars, parseVars, lockVars, rotVars>>

\* results.append(res)    -- line 862
CollectResultByKeyword(rs, res) ==
    IF \E k \in 1..Len(rs) : rs[k].keyword = res.keyword
    THEN [k \in 1..Len(rs) |-> IF rs[k].keyword = res.keyword THEN res ELSE rs[k]]
    ELSE Append(rs, res)
CollectResult(rs, res) == Append(rs, res)

\* progress_state["tasks"][kw]["phase"] = "done" / "failed"    -- lines 865-870
FinalPhaseOnlyFailed(res, phase) == IF res.ok THEN phase ELSE "failed"
FinalPhase(res, phase) == IF res.ok THEN "done" ELSE "failed"

\* lines 859-871: as_completed yields a finished future; future.result() is
\* appended and counted, the keyword's slot gets its final phase
Collect(n) ==
    /\ main_pc = "collect"
    /\ task[n].pc \in {"returned", "raised"}
    /\ IF task[n].pc = "raised"
       THEN /\ main_pc' = "raised"
            /\ UNCHANGED <<results, progress_state>>
       ELSE LET res == task[n].result
                kw  == keywords[n]
            IN  /\ results' = CollectResult(results, res)
                /\ progress_state' =
                     [progress_state EXCEPT
                        !.completed = @ + 1,
                        !.success = IF res.ok THEN @ + 1 ELSE @,
                        !.failed = IF res.ok THEN @ ELSE @ + 1,
                        !.tasks[kw].phase = FinalPhase(res, @)]
                /\ UNCHANGED main_pc
    /\ task' = [task EXCEPT ![n].pc = "collected"]
    /\ UNCHANGED <<keywords, appid, retries, workers, only_get_link, files>>
    /\ UNCHANGED <<aggVars, httpVars, exactVars, reportVars, parseVars, lockVars, rotVars>>

\* if (not only_get_link) and len(keywords) > 1:    -- line 848
ReporterForEveryBatch == TRUE
ReporterWanted == (~only_get_link) /\ Len(keywords) > 1

\* Nothing has been logged by render_batch_progress.
NoLine == [done |-> -1, total |-> -1, ok |-> -1, fail |-> -1, active |-> -1, force |-> FALSE]
NoLog == [last |-> NoLine, final |-> NoLine, forced |-> 0, repeat |-> FALSE]

\* reporter_thread, stop_event, reporter_meta as run_batch sets them up
\* (lines 747-748, 847-850).  old: the clock is known to be 4 s or more past
\* last_emit_ts, which starts at 0.0.
NewReporter ==
    [thread |-> IF ReporterWanted THEN "wait" ELSE "none",
     stop |-> FALSE, last_sig |-> <<>>, last_done |-> -1, old |-> TRUE]

\* active = [... if v.get("phase") in {"start", "downloading"}]    -- line 771
ActiveSlots(ps) ==
    {kw \in DOMAIN ps.tasks : ps.tasks[kw].phase \in {"start", "downloading"}}

\* sig (lines 780, 807-812), without the speeds and the order of the tasks shown
Signature(ps) ==
    [done |-> ps.completed, ok |-> ps.success, fail |-> ps.failed,
     active |-> {<<kw, ps.tasks[kw].downloaded, ps.tasks[kw].total_size>> :
                    kw \in ActiveSlots(ps)}]

\* The early returns of render_batch_progress (lines 782-783, 814-815).  quiet:
\* less than 4 s since the last emission and the same speeds and order shown.
SuppressedByTimeOnly(force, ps, meta, quiet) ==
    /\ ~force
    /\ Signature(ps) = meta.last_sig /\ quiet
Suppressed(force, ps, meta, quiet) ==
    /\ ~force
    /\ IF ActiveSlots(ps) = {}
       THEN ps.completed = meta.last_done
       ELSE Signature(ps) = meta.last_sig /\ quiet

\* The summary line that render_batch_progress logs (lines 787-791, 819-823)
Emission(force, ps) ==
    [done |-> ps.completed, total |-> ps.total, ok |-> ps.success, fail |-> ps.failed,
     active |-> Cardinality(ActiveSlots(ps)), force |-> force]

\* render_batch_progress(force), lines 763-841: reporter_meta and the log after
\* it.  batch_log keeps the last line, the forced line, the number of forced
\* lines, and whether the forced line repeated an unchanged, recent state.
Rendered(force, quiet) ==
    IF Suppressed(force, progress_state, reporter, quiet)
    THEN [reporter |-> reporter, batch_log |-> batch_log]
    ELSE [reporter |-> [reporter EXCEPT !.last_sig = Signature(progress_state),
                                        !.last_done = progress_state.completed,
                                        !.old = FALSE],
          batch_log |-> [last   |-> Emission(force, progress_state),
                         final  |-> IF force THEN Emission(force, progress_state)
                                    ELSE batch_log.final,
                         forced |-> IF force THEN batch_log.forced + 1
                                    ELSE batch_log.forced,
                         repeat |-> IF force
                                    THEN Suppressed(FALSE, progress_state, reporter, TRUE)
                                    ELSE batch_log.repeat]]

\* progress_reporter: stop_event.wait(1.5) times out    -- line 844
ReporterWake ==
    /\ main_pc # "exited"
    /\ reporter.thread = "wait"
    /\ ~reporter.stop
    /\ reporter' = [reporter EXCEPT !.thread = "render"]
    /\ UNCHANGED <<keywords, appid, retries, workers, only_get_link, task,
                   progress_state, results, files, main_pc, batch_log, mapping>>
    /\ UNCHANGED <<aggVars, httpVars, exactVars, parseVars, lockVars, rotVars>>

\* progress_reporter: render_batch_progress(force=False)    -- line 845
ReporterRender ==
    /\ main_pc # "exited"
    /\ reporter.thread = "render"
    /\ \E quiet \in (IF reporter.old THEN {FALSE} ELSE BOOLEAN) :
          LET r == Rendered(FALSE, quiet) IN
          /\ reporter' = [r.reporter EXCEPT !.thread = "wait"]
          /\ batch_log' = r.batch_log
    /\ UNCHANGED <<keywords, appid, retries, workers, only_get_link, task,
                   progress_state, results, files, main_pc, mapping>>
    /\ UNCHANGED <<aggVars, httpVars, exactVars, parseVars, lockVars, rotVars>>

\* progress_reporter: stop_event.wait returns True, the thread ends
ReporterExit ==
    /\ main_pc # "exited"
    /\ reporter.thread = "wait"
    /\ reporter.stop
    /\ reporter' = [reporter EXCEPT !.thread = "exited"]
    /\ UNCHANGED <<keywords, appid, retries, workers, only_get_link, task,
                   progress_state, results, files, main_pc, batch_log, mapping>>
    /\ UNCHANGED <<aggVars, httpVars, exactVars, parseVars, lockVars, rotVars>>

\* The clock passes last_emit_ts + 4.0 (line 814).
QuietIntervalPasses ==
    /\ main_pc # "exited"
    /\ reporter.thread \in {"wait", "render"}
    /\ ~reporter.old
    /\ reporter' = [reporter EXCEPT !.old = TRUE]
    /\ UNCHANGED <<keywords, appid, retries, workers, only_get_link, task,
                   progress_state, results, files, main_pc, batch_log, mapping>>
    /\ UNCHANGED <<aggVars, httpVars, exactVars, parseVars, lockVars, rotVars>>

\* The as_completed loop has yielded every future and the executor's with
\* block is left (lines 853-880).
ExecutorDoneAfterFirst == \E n \in Tasks : task[n].pc = "collected"
ExecutorDone == \A n \in Tasks : task[n].pc = "collected"

\* if reporter_thread: stop_event.set()    -- lines 882-883
StopReporter ==
    /\ main_pc = "collect"
    /\ ExecutorDone
    /\ reporter.thread # "none"
    /\ reporter' = [reporter EXCEPT !.stop = TRUE]
    /\ main_pc' = "join"
    /\ UNCHANGED <<keywords, appid, retries, workers, only_get_link, task,
                   progress_state, results, files, batch_log, mapping>>
    /\ UNCHANGED <<aggVars, httpVars, exactVars, parseVars, lockVars, rotVars>>

\* reporter_thread.join(timeout=2.0): the thread has ended, or 2 s have passed
JoinReporter ==
    /\ main_pc = "join"
    /\ main_pc' = "force"
    /\ UNCHANGED <<keywords, appid, retries, workers, only_get_link, task,
                   progress_state, results, files, reportVars>>
    /\ UNCHANGED <<aggVars, httpVars, exactVars, parseVars, lockVars, rotVars>>

\* render_batch_progress(force=True)    -- line 885
ForceRender ==
    /\ main_pc = "force"
    /\ LET r == Rendered(TRUE, FALSE) IN
          /\ reporter' = r.reporter
          /\ batch_log' = r.batch_log
    /\ main_pc' = "summary"
    /\ UNCHANGED <<keywords, appid, retries, workers, only_get_link, task,
                   progress_state, results, files, mapping>>
    /\ UNCHANGED <<aggVars, httpVars, exactVars, parseVars, lockVars, rotVars>>

\* single_mode = len(keywords) == 1    -- line 852
SingleMode == Len(keywords) = 1

\* success = sum(1 for x in results if x["ok"]); failed = len(results) - success;
\* the Summary line    -- lines 887-889
SummaryCountsUrls(rs) ==
    LET success == Cardinality({k \in 1..Len(rs) : rs[k].url # ""})
    IN  [success |-> success, failed |-> Len(rs) - success]
Summary(rs) ==
    LET success == Cardinality({k \in 1..Len(rs) : rs[k].ok})
    IN  [success |-> success, failed |-> Len(rs) - success]

\* status = "ok" if row.get("ok") else "failed"    -- line 902
StatusColumnByUrl(row) == IF row.url # "" THEN "ok" ELSE "failed"
StatusColumn(row) == IF row.ok THEN "ok" ELSE "failed"

HeaderRow == [header |-> TRUE, keyword |-> <<>>, status |-> "status", error |-> NoError]

\* lines 897-904: the line written for one result
ReportRow(row) ==
    [header |-> FALSE, keyword |-> Strip(row.keyword), status |-> StatusColumn(row),
     error |-> row.error]

\* lines 895-904: open(mapping_path, "w"), the header, one line per result
ReportFile(rs) == <<HeaderRow>> \o [k \in 1..Len(rs) |-> ReportRow(rs[k])]

\* lines 887-907: the summary, the batch report unless single_mode, return
BatchReturn ==
    /\ \/ main_pc = "summary"
       \/ main_pc = "collect" /\ ExecutorDone /\ reporter.thread = "none"
    /\ mapping' = IF SingleMode THEN mapping
                  ELSE [writes |-> mapping.writes + 1, rows |-> ReportFile(results)]
    /\ main_pc' = "returned"
    /\ UNCHANGED <<keywords, appid, retries, workers, only_get_link, task,
                   progress_state, results, files, reporter, batch_log>>
    /\ UNCHANGED <<aggVars, httpVars, exactVars, parseVars, lockVars, rotVars>>

\* KeyboardInterrupt is raised in the main thread.  Inside the executor's with
\* block (853-880) its __exit__ runs shutdown(wait=True); after the block
\* (882-907) nothing stands between the exception and __main__ (1370-1372).
Interrupt ==
    /\ main_pc \in {"collect", "join", "force", "summary"}
    /\ main_pc' = IF main_pc = "collect" THEN "shutdown" ELSE "exited"
    /\ UNCHANGED <<keywords, appid, retries, workers, only_get_link, task,
                   progress_state, results, files, reportVars>>
    /\ UNCHANGED <<aggVars, httpVars, exactVars, parseVars, lockVars, rotVars>>

\* shutdown(wait=True) has joined the pool threads: every work item of the
\* queue has been run.  The exception leaves run_batch and main; __main__
\* logs it and calls sys.exit(130), which ends the daemon reporter thread.
InterruptExit ==
    /\ main_pc = "shutdown"
    /\ \A n \in Tasks : task[n].pc # "queued" /\ ~Running(task[n])
    /\ main_pc' = "exited"
    /\ UNCHANGED <<keywords, appid, retries, workers, only_get_link, task,
                   progress_state, results, files, reportVars>>
    /\ UNCHANGED <<aggVars, httpVars, exactVars, parseVars, lockVars, rotVars>>

-----------------------------------------------------------------------------
(* The aggregates of render_batch_progress, lines 771-776 *)

\* The slots of a batch of three keywords.
SlotIds == {1, 2, 3}

\* What slot k can hold: it is created queued with zeros, a start sample sets
\* downloaded and speed to 0, a downloading or done sample sets all three, and
\* the orchestrator's done / failed changes the phase only.  Sizes and speeds
\* are multiples of k so that the slots differ.
SlotValues(k) ==
    [phase : {"queued"}, downloaded : {0}, total_size : {0}, speed : {0}]
    \cup [phase : {"start"}, downloaded : {0}, total_size : {0, 100 * k}, speed : {0}]
    \cup [phase : {"downloading"}, downloaded : {50 * k}, total_size : {0, 100 * k},
           speed : {1, 10 * k}]
    \cup [phase : {"done"}, downloaded : {100 * k}, total_size : {0, 100 * k}, speed : {10 * k}]
    \cup [phase : {"done", "failed"}, downloaded : {0}, total_size : {0}, speed : {0}]
    \cup [phase : {"failed"}, downloaded : {50 * k}, total_size : {0, 100 * k}, speed : {10 * k}]

RECURSIVE SumOver(_, _)
\* sum(... for _, v in ...): the sum of f over the slots in S
SumOver(f, S) ==
    IF S = {} THEN 0
    ELSE LET k == CHOOSE x \in S : TRUE IN f[k] + SumOver(f, S \ {k})

\* active = [... if v.get("phase") in {"start", "downloading"}]    -- line 771
ActivePhasesWithDone == {"start", "downloading", "done"}
ActivePhases == {"start", "downloading"}

\* total_speed > 1    -- line 776
NoiseFloor == 1

NoEta == [num |-> -1, den |-> 1]

\* lines 771-776.  eta is kept as the fraction remain_known / total_speed.
Aggregates(tasks) ==
    LET active       == {k \in DOMAIN tasks : tasks[k].phase \in ActivePhases}
        total_dl     == SumOver([k \in DOMAIN tasks |-> tasks[k].downloaded], DOMAIN tasks)
        total_known  == SumOver([k \in DOMAIN tasks |-> tasks[k].total_size],
                                {k \in DOMAIN tasks : tasks[k].total_size > 0})
        total_speed  == SumOver([k \in DOMAIN tasks |-> tasks[k].speed], active)
        remain_known == Max(0, total_known - total_dl)
    IN  [total_dl |-> total_dl, total_known |-> total_known, total_speed |-> total_speed,
         remain_known |-> remain_known,
         eta |-> IF total_speed > NoiseFloor /\ total_known > 0
                 THEN [num |-> remain_known, den |-> total_speed]
                 ELSE NoEta]

NoAggregates ==
    [total_dl |-> 0, total_known |-> 0, total_speed |-> 0, remain_known |-> 0, eta |-> NoEta]

IdleAgg == a_tasks = <<>> /\ a_pc = "idle" /\ a_out = NoAggregates

InitAggVars ==
    /\ a_tasks \in [SlotIds -> UNION {SlotValues(k) : k \in SlotIds}]
    /\ \A k \in SlotIds : a_tasks[k] \in SlotValues(k)
    /\ a_pc = "call"
    /\ a_out = NoAggregates

\* render_batch_progress computes its aggregates
RenderAggregates ==
    /\ a_pc = "call"
    /\ a_out' = Aggregates(a_tasks)
    /\ a_pc' = "rendered"
    /\ UNCHANGED a_tasks
    /\ UNCHANGED <<httpVars, exactVars, batchVars, parseVars, lockVars, rotVars>>

-----------------------------------------------------------------------------
(* parse_direct_url: Extraction Rule A, lines 327-356 *)

\* A URL as the patterns see it: protocol-relative ("") or with a scheme, its
\* host, whether its path goes through /cgi-bin/dl.cgi/, and how it ends.
NoUrl == [scheme |-> "", host |-> "", gateway |-> FALSE, ends |-> ""]

Url(scheme, host, gateway, ends) ==
    [scheme |-> scheme, host |-> host, gateway |-> gateway, ends |-> ends]

\* The URLs of the documents explored: two archives, two confirmation pages
\* of the mod host, a gateway link, a gateway link to a confirmation page, a
\* plain page, and a .zip.html page of another host.
Urls ==
    {Url("", "cdn", FALSE, ".zip"),
     Url("https:", "modsbase.com", FALSE, ".zip"),
     Url("https:", "modsbase.com", FALSE, ".zip.html"),
     Url("", "modsbase.com", FALSE, ".zip.html"),
     Url("https:", "cdn", TRUE, ""),
     Url("https:", "modsbase.com", TRUE, ".zip.html"),
     Url("https:", "cdn", FALSE, ""),
     Url("https:", "cdn", FALSE, ".zip.html")}

\* A link of a document: href="url", href='url', or a redirect call
\* location.href("url") / window.open("url").
Links == [tag : {"href_dq", "href_sq", "call"}, url : Urls]

\* A document with no, one, two or three links.
Documents ==
    {<<>>} \cup {<<a>> : a \in Links} \cup {<<a, b>> : a \in Links, b \in Links}
           \cup {<<a, b, c>> : a \in Links, b \in Links, c \in Links}

\* The five patterns of parse_direct_url, in the order of the list (349-353)
Patterns == <<"gateway_dq", "gateway_sq", "archive_dq", "archive_sq", "call">>

\* re.search(p, ...) matches at this link
Matches(p, link) ==
    CASE p = "gateway_dq" -> link.tag = "href_dq" /\ link.url.gateway
      [] p = "gateway_sq" -> link.tag = "href_sq" /\ link.url.gateway
      [] p = "archive_dq" -> link.tag = "href_dq" /\ link.url.ends = ".zip"
      [] p = "archive_sq" -> link.tag = "href_sq" /\ link.url.ends = ".zip"
      [] OTHER            -> link.tag = "call"

\* re.search(p, text): the leftmost match, 0 for no match
Search(p, text) ==
    IF \E k \in 1..Len(text) : Matches(p, text[k])
    THEN CHOOSE k \in 1..Len(text) :
            Matches(p, text[k]) /\ \A j \in 1..(k - 1) : ~Matches(p, text[j])
    ELSE 0

RECURSIVE first_match(_, _)
first_match(text, patterns) ==
    IF patterns = <<>> THEN NoUrl
    ELSE IF Search(Head(patterns), text) # 0
         THEN text[Search(Head(patterns), text)].url
         ELSE first_match(text, Tail(patterns))

normalize_direct_url_keeps_relative(url) ==
    IF url = NoUrl THEN NoUrl
    ELSE IF url.scheme = "https:" /\ url.host = "modsbase.com" /\ url.ends = ".zip.html"
         THEN NoUrl ELSE url
normalize_direct_url(url) ==
    IF url = NoUrl THEN NoUrl
    ELSE LET u == IF url.scheme = "" THEN [url EXCEPT !.scheme = "https:"] ELSE url
         IN  IF u.host = "modsbase.com" /\ u.ends = ".zip.html" THEN NoUrl ELSE u

parse_direct_url(html_text) == normalize_direct_url(first_match(html_text, Patterns))

IdleParse == p_text = <<>> /\ p_pc = "idle" /\ p_ret = NoUrl

InitParseVars ==
    /\ p_text \in Documents
    /\ p_pc = "call"
    /\ p_ret = NoUrl

ParseDirectUrl ==
    /\ p_pc = "call"
    /\ p_ret' = parse_direct_url(p_text)
    /\ p_pc' = "returned"
    /\ UNCHANGED p_text
    /\ UNCHANGED <<httpVars, exactVars, batchVars, aggVars, lockVars, rotVars>>

-----------------------------------------------------------------------------
(* The locks of a running batch: progress_lock (727) and PRINT_LOCK (72), and
   the statements that the threads of a batch run on the shared progress
   state, one statement at a time *)

\* The main thread, the reporter thread and two pool threads.
Threads == {"main", "reporter", "worker1", "worker2"}

\* progress_state["tasks"][kw], the counters completed / success / failed,
\* progress_state["offset"], reporter_meta
SharedState == {"slot", "counters", "offset", "reporter_meta"}

Stmt(do, on) == [do |-> do, on |-> on]

\* log(): with PRINT_LOCK: print(...)    -- lines 71-73
log == <<Stmt("acquire", "PRINT_LOCK"), Stmt("write", "stdout"), Stmt("release", "PRINT_LOCK")>>

\* on_progress: with progress_lock: state = ...get(kw); state[...] = ...  (750-761)
on_progress_body_inside_log ==
    <<Stmt("acquire", "PRINT_LOCK"),
      Stmt("acquire", "progress_lock"), Stmt("read", "slot"), Stmt("write", "slot"),
      Stmt("release", "progress_lock"),
      Stmt("write", "stdout"), Stmt("release", "PRINT_LOCK")>>
on_progress_body ==
    <<Stmt("acquire", "progress_lock"), Stmt("read", "slot"), Stmt("write", "slot"),
      Stmt("release", "progress_lock")>>

\* render_batch_progress, 764-776: with progress_lock: read the counters and slots
RenderHead == <<Stmt("acquire", "progress_lock"), Stmt("read", "counters"), Stmt("read", "slot")>>

\* 799-803: more than limit active tasks: progress_state["offset"] is advanced
Rotate == <<Stmt("read", "offset"), Stmt("write", "offset")>>

\* 782-783, 814-815: the early return leaves the with block
RenderQuiet == <<Stmt("read", "reporter_meta"), Stmt("release", "progress_lock")>>

\* 784-794, 816-841: reporter_meta is updated and the lines are logged inside
\* the with block
RenderEmit ==
    <<Stmt("read", "reporter_meta"), Stmt("write", "reporter_meta")>> \o log
        \o <<Stmt("release", "progress_lock")>>

\* render_batch_progress(force): the paths through it
render_batch_progress_body(force) ==
    {RenderHead \o RenderEmit, RenderHead \o Rotate \o RenderEmit}
    \cup IF force THEN {}
         ELSE {RenderHead \o RenderQuiet, RenderHead \o Rotate \o RenderQuiet}

\* 862-880: results.append(res); with progress_lock: the counters and the
\* slot's phase; then the result is logged
CollectUnlocked ==
    <<Stmt("read", "counters"), Stmt("write", "counters"), Stmt("write", "slot")>> \o log
CollectBody ==
    <<Stmt("acquire", "progress_lock"),
      Stmt("read", "counters"), Stmt("write", "counters"), Stmt("write", "slot"),
      Stmt("release", "progress_lock")>> \o log

\* What a thread may call: the main thread collects a result (859-880) or
\* renders with force (885); the reporter renders without force (845); a pool
\* thread's task reports a sample through its hook or logs a line.
Calls(t) ==
    CASE t = "main"     -> {CollectBody} \cup render_batch_progress_body(TRUE)
      [] t = "reporter" -> render_batch_progress_body(FALSE)
      [] OTHER          -> {on_progress_body, log}

IdleLock ==
    /\ progress_lock = "idle" /\ PRINT_LOCK = "idle" /\ thread_at = <<>>

\* The threads are started, no lock is held.
InitLockVars ==
    /\ progress_lock = "free"
    /\ PRINT_LOCK = "free"
    /\ thread_at = [t \in Threads |-> <<>>]

Holder(lock) == IF lock = "progress_lock" THEN progress_lock ELSE PRINT_LOCK

\* A thread enters one of its calls.
Call(t) ==
    /\ thread_at[t] = <<>>
    /\ \E body \in Calls(t) : thread_at' = [thread_at EXCEPT ![t] = body]
    /\ UNCHANGED <<progress_lock, PRINT_LOCK>>
    /\ UNCHANGED <<httpVars, exactVars, batchVars, aggVars, parseVars, rotVars>>

\* with lock:  -- Lock.acquire() returns once the lock is free
Acquire(t) ==
    /\ thread_at[t] # <<>>
    /\ Head(thread_at[t]).do = "acquire"
    /\ Holder(Head(thread_at[t]).on) = "free"
    /\ IF Head(thread_at[t]).on = "progress_lock"
       THEN progress_lock' = t /\ UNCHANGED PRINT_LOCK
       ELSE PRINT_LOCK' = t /\ UNCHANGED progress_lock
    /\ thread_at' = [thread_at EXCEPT ![t] = Tail(@)]
    /\ UNCHANGED <<httpVars, exactVars, batchVars, aggVars, parseVars, rotVars>>

\* One read or write of the shared state or of stdout.
Access(t) ==
    /\ thread_at[t] # <<>>
    /\ Head(thread_at[t]).do \in {"read", "write"}
    /\ thread_at' = [thread_at EXCEPT ![t] = Tail(@)]
    /\ UNCHANGED <<progress_lock, PRINT_LOCK>>
    /\ UNCHANGED <<httpVars, exactVars, batchVars, aggVars, parseVars, rotVars>>

\* The with block is left.
Release(t) ==
    /\ thread_at[t] # <<>>
    /\ Head(thread_at[t]).do = "release"
    /\ IF Head(thread_at[t]).on = "progress_lock"
       THEN progress_lock' = "free" /\ UNCHANGED PRINT_LOCK
       ELSE PRINT_LOCK' = "free" /\ UNCHANGED progress_lock
    /\ thread_at' = [thread_at EXCEPT ![t] = Tail(@)]
    /\ UNCHANGED <<httpVars, exactVars, batchVars, aggVars, parseVars, rotVars>>

-----------------------------------------------------------------------------
(* render_batch_progress: the window of active tasks, lines 796-818 *)

\* limit = 5
limit == 5

\* The slots that stay active: one more than the window holds.
RotSlots == {"k1", "k2", "k3", "k4", "k5", "k6"}

Without(seq, k) == SelectSeq(seq, LAMBDA e : e # k)

Range(seq) == {seq[i] : i \in 1..Len(seq)}

\* rolled[:limit] of lines 798-805
Window(active_sorted, off) ==
    LET count == Len(active_sorted) IN
    IF count > limit
    THEN LET offset == off % count
             rolled == SubSeq(active_sorted, offset + 1, count)
                          \o SubSeq(active_sorted, 1, offset)
         IN  SubSeq(rolled, 1, limit)
    ELSE active_sorted

\* progress_state["offset"] after lines 799-803
NextOffset(active_sorted, off) ==
    LET count == Len(active_sorted) IN
    IF count > limit THEN (off + limit) % count ELSE off

IdleRotate ==
    /\ r_active = <<>>
    /\ r_offset = 0
    /\ r_show = {}

InitRotateVars ==
    /\ r_active = <<"k1", "k2", "k3", "k4", "k5", "k6">>
    /\ r_offset = 0
    /\ r_show = {}

\* on_progress(k, ...): state["updated_at"] = time.time() puts k first in the
\* order of line 796.
OnProgress(k) ==
    /\ r_active # <<>>
    /\ Head(r_active) # k
    /\ r_active' = <<k>> \o Without(r_active, k)
    /\ UNCHANGED <<r_offset, r_show>>
    /\ UNCHANGED <<httpVars, exactVars, batchVars, aggVars, parseVars, lockVars>>

\* render_batch_progress(force=False) with more than limit active slots.  The
\* offset is advanced (803) before the early return (814-815).  quiet: less
\* than 4 s since the last emission and the same order, bytes and speeds in
\* the signature.
RenderWindow ==
    /\ r_active # <<>>
    /\ LET show == Window(r_active, r_offset) IN
       /\ r_offset' = NextOffset(r_active, r_offset)
       /\ \E quiet \in BOOLEAN :
             r_show' = IF Range(show) = r_show /\ quiet THEN r_show ELSE Range(show)
    /\ UNCHANGED r_active
    /\ UNCHANGED <<httpVars, exactVars, batchVars, aggVars, parseVars, lockVars>>

-----------------------------------------------------------------------------
(* Specifications *)

KwA    == <<"A">>
KwB    == <<"A", "A">>
KwNote == <<"(", "A", ")">>     \* nothing is left of it after cleaning
KwBlank == <<" ">>              \* nothing is left of it after stripping
BatchKeywords == {KwA, KwB, KwNote}

AppIds == {0, 1}     \* no game selected (None), or the AppId of the selected game

IdleBatch ==
    /\ keywords = <<>> /\ appid = 0 /\ retries = 0 /\ workers = 1
    /\ only_get_link = FALSE /\ task = <<>> /\ results = <<>> /\ files = <<>>
    /\ progress_state = [total |-> 0, completed |-> 0, success |-> 0, failed |-> 0,
                         tasks |-> <<>>]
    /\ main_pc = "idle"
    /\ reporter = [thread |-> "none", stop |-> FALSE, last_sig |-> <<>>, last_done |-> -1,
                   old |-> TRUE]
    /\ batch_log = NoLog
    /\ mapping = [writes |-> 0, rows |-> <<>>]

\* run_batch up to the submission of the tasks (lines 718-858)
InitBatchVars(kwLists, appids, retryValues, workerValues) ==
    /\ keywords \in kwLists
    /\ appid \in appids
    /\ retries \in retryValues
    /\ workers \in workerValues
    /\ only_get_link \in BOOLEAN
    /\ task = [n \in 1..Len(keywords) |-> NewTask(keywords[n])]
    /\ files = [n \in 1..Len(keywords) |-> <<>>]
    /\ results = <<>>
    /\ progress_state =
         [total |-> Len(keywords), completed |-> 0, success |-> 0, failed |-> 0,
          tasks |-> [kw \in {keywords[n] : n \in 1..Len(keywords)} |-> NewSlot]]
    /\ main_pc = "collect"
    /\ reporter = NewReporter
    /\ batch_log = NoLog
    /\ mapping = [writes |-> 0, rows |-> <<>>]

\* The keyword lists of the batches explored: no keyword, one keyword, a
\* duplicate, two distinct keywords, and a keyword next to an empty one.
KeywordLists ==
    {<<>>} \cup {<<k>> : k \in BatchKeywords}
           \cup {<<KwA, KwA>>, <<KwA, KwB>>, <<KwA, KwNote>>, <<KwNote, KwA>>}

\* The retry budgets of the batches explored: no retry, one retry.
BatchRetries == {0, 1}

\* The worker counts of the batches explored: an unclamped 0 from the config
\* file, and the largest pool.
BatchWorkers == {0, MaxWorkers}

\* A batch in global-search mode.
Init ==
    /\ InitBatchVars(KeywordLists, {0}, BatchRetries, BatchWorkers)
    /\ IdleHttp /\ IdleExact /\ IdleAgg /\ IdleParse /\ IdleLock /\ IdleRotate

\* One keyword, with or without a scope.
InitTask ==
    /\ InitBatchVars({<<kw>> : kw \in BatchKeywords \cup {KwBlank}}, AppIds,
                     -1..MaxRetries, {0, 1})
    /\ IdleHttp /\ IdleExact /\ IdleAgg /\ IdleParse /\ IdleLock /\ IdleRotate

\* A batch without retries, with the reporter thread running beside it.
InitReport ==
    /\ InitBatchVars(KeywordLists, {0}, {0}, BatchWorkers)
    /\ IdleHttp /\ IdleExact /\ IdleAgg /\ IdleParse /\ IdleLock /\ IdleRotate

\* A batch with one retry and its reporter thread, run to its end.
InitLive ==
    /\ InitBatchVars({<<>>, <<KwA>>, <<KwA, KwNote>>}, {0}, BatchRetries, BatchWorkers)
    /\ IdleHttp /\ IdleExact /\ IdleAgg /\ IdleParse /\ IdleLock /\ IdleRotate

\* A download batch whose first file has a Content-Length of ten chunks.
InitDecile ==
    /\ InitBatchVars({<<KwA, KwNote>>}, {0}, {0}, {MaxWorkers})
    /\ IdleHttp /\ IdleExact /\ IdleAgg /\ IdleParse /\ IdleLock /\ IdleRotate

\* A download batch of two keywords that the operator may interrupt.
InitInterrupt ==
    /\ InitBatchVars({<<KwA, KwB>>, <<KwA, KwNote>>}, {0}, {0}, BatchWorkers)
    /\ IdleHttp /\ IdleExact /\ IdleAgg /\ IdleParse /\ IdleLock /\ IdleRotate

\* A batch of two keywords, its reporter thread and the clock.
InitClock ==
    /\ InitBatchVars({<<KwA, KwB>>, <<KwA, KwNote>>}, {0}, {0}, {MaxWorkers})
    /\ IdleHttp /\ IdleExact /\ IdleAgg /\ IdleParse /\ IdleLock /\ IdleRotate

InitHttp == InitHttpVars /\ IdleExact /\ IdleBatch /\ IdleAgg /\ IdleParse /\ IdleLock /\ IdleRotate

InitExact == InitExactVars /\ IdleHttp /\ IdleBatch /\ IdleAgg /\ IdleParse /\ IdleLock /\ IdleRotate

InitAgg == InitAggVars /\ IdleHttp /\ IdleExact /\ IdleBatch /\ IdleParse /\ IdleLock /\ IdleRotate

InitParse == InitParseVars /\ IdleHttp /\ IdleExact /\ IdleBatch /\ IdleAgg /\ IdleLock
             /\ IdleRotate

InitLock == InitLockVars /\ IdleHttp /\ IdleExact /\ IdleBatch /\ IdleAgg /\ IdleParse
            /\ IdleRotate

InitRotate == InitRotateVars /\ IdleHttp /\ IdleExact /\ IdleBatch /\ IdleAgg /\ IdleParse
              /\ IdleLock

Next ==
    \/ \E n \in Tasks : StartTask(n)
    \/ \E n \in Tasks : Resolve(n, BatchNets)
    \/ \E n \in Tasks : DlOpenFails(n)
    \/ \E n \in Tasks : DlOpen(n, {0, MaxChunks})
    \/ \E n \in Tasks : DlChunk(n)
    \/ \E n \in Tasks : DlCut(n)
    \/ \E n \in Tasks : DlEof(n)
    \/ \E n \in Tasks : Collect(n)
    \/ StopReporter
    \/ JoinReporter
    \/ ForceRender
    \/ BatchReturn

NextTask ==
    \/ \E n \in Tasks : StartTask(n)
    \/ \E n \in Tasks : Resolve(n, AllNets)
    \/ \E n \in Tasks : DlOpenFails(n)
    \/ \E n \in Tasks : DlOpen(n, {0, MaxChunks})
    \/ \E n \in Tasks : DlChunk(n)
    \/ \E n \in Tasks : DlCut(n)
    \/ \E n \in Tasks : DlEof(n)
    \/ \E n \in Tasks : Collect(n)
    \/ BatchReturn

\* The tasks of a batch whose files have no Content-Length or one of ten chunks.
NextDecile ==
    \/ \E n \in Tasks : StartTask(n)
    \/ \E n \in Tasks : Resolve(n, BatchNets)
    \/ \E n \in Tasks : DlOpenFails(n)
    \/ \E n \in Tasks : DlOpen(n, {0, DecileLength})
    \/ \E n \in Tasks : DlChunk(n)
    \/ \E n \in Tasks : DlCut(n)
    \/ \E n \in Tasks : DlEof(n)

\* The batch together with its reporter thread.
NextReport ==
    \/ Next
    \/ ReporterWake
    \/ ReporterRender
    \/ ReporterExit

\* The batch, its reporter thread and the operator's Ctrl-C.
NextInterrupt ==
    \/ NextReport
    \/ Interrupt
    \/ InterruptExit

\* The batch, its reporter thread and the passing of time.
NextClock ==
    \/ NextReport
    \/ QuietIntervalPasses

\* The reporter renders while the workers report progress.
NextRotate ==
    \/ \E k \in RotSlots : OnProgress(k)
    \/ RenderWindow

NextHttp == HttpRequestOk \/ HttpRequestFails \/ HttpSleep

NextExact == FindExact

NextAgg == RenderAggregates

NextParse == ParseDirectUrl

NextLock ==
    \/ \E t \in Threads : Call(t)
    \/ \E t \in Threads : Acquire(t)
    \/ \E t \in Threads : Access(t)
    \/ \E t \in Threads : Release(t)

Spec      == Init /\ [][Next]_vars
SpecTask  == InitTask /\ [][NextTask]_vars
SpecReport == InitReport /\ [][NextReport]_vars
SpecInterrupt == InitInterrupt /\ [][NextInterrupt]_vars
SpecClock == InitClock /\ [][NextClock]_vars
\* The reporter loop renders every 1.5 s (line 844).
SpecRotate == InitRotate /\ [][NextRotate]_vars /\ WF_vars(RenderWindow)
SpecDecile == InitDecile /\ [][NextDecile]_vars
\* A step of a pool thread other than the cascade: a task is started, the
\* download is opened, a chunk is read, the body ends or breaks.
WorkerStep ==
    \E n \in Tasks :
        \/ StartTask(n) \/ DlOpenFails(n) \/ DlOpen(n, {0, MaxChunks})
        \/ DlChunk(n) \/ DlCut(n) \/ DlEof(n)

\* The cascade of a task has ended (the step of Resolve).
Resolved == \E n \in Tasks : task[n].pc = "running" /\ task'[n].pc # "running"

\* A step of the main thread.
MainStep ==
    \/ \E n \in Tasks : Collect(n)
    \/ StopReporter \/ JoinReporter \/ ForceRender \/ BatchReturn

\* Every network call and chunk read returns or raises, and the pool threads,
\* the main thread and the reporter thread keep being scheduled.  The last
\* conjunct is the weak fairness of Resolve, which is enabled exactly while a
\* task is in state "running".
SpecLive ==
    /\ InitLive /\ [][NextReport]_vars
    /\ WF_vars(WorkerStep) /\ WF_vars(MainStep)
    /\ WF_vars(ReporterRender) /\ WF_vars(ReporterExit)
    /\ ([]<>(\A n \in Tasks : task[n].pc # "running") \/ []<><<Resolved>>_vars)
SpecHttp  == InitHttp /\ [][NextHttp]_vars
SpecExact == InitExact /\ [][NextExact]_vars
SpecAgg   == InitAgg /\ [][NextAgg]_vars
SpecParse == InitParse /\ [][NextParse]_vars
SpecLock  == InitLock /\ [][NextLock]_vars

-----------------------------------------------------------------------------
(* Properties *)

Terminal(t) == t.pc \in {"returned", "collected"}
IsDownload(e) == e.step = "download"
IsLookup(e) == e.step # "download"
Lookups(tr) == SelectSeq(tr, IsLookup)
Downloads(tr) == SelectSeq(tr, IsDownload)
DownloadCount(tr) == Len(Downloads(tr))
CascadeRan(n) == task[n].pc \notin {"queued", "running"} /\ clean_keyword(keywords[n]) # <<>>

\* C1: when run_batch returns, results holds one result per submitted keyword
\* occurrence: as many results as keywords and, for each keyword text, as many
\* results carrying it as the input holds occurrences of it.
C1_OneResultPerOccurrence ==
    main_pc = "returned" =>
        /\ Len(results) = Len(keywords)
        /\ \A kw \in BatchKeywords :
              Cardinality({k \in 1..Len(results) : results[k].keyword = kw})
                = Cardinality({n \in Tasks : keywords[n] = kw})

C1_Witness ==
    main_pc = "returned" /\ Len(keywords) = 2 /\ keywords[1] = keywords[2]

\* A step in which task m ends without success.
FailsIn(m) == Running(task[m]) /\ ~Running(task'[m]) /\ ~task'[m].result.ok

C2_Inv ==
    /\ main_pc # "raised"
    /\ \A n \in Tasks : task[n].pc # "raised"
    /\ main_pc = "returned" =>
          \A n \in Tasks : \E k \in 1..Len(results) : results[k] = task[n].result

C2_Step ==
    \A m \in Tasks :
        FailsIn(m) =>
            /\ task'[m].pc = "returned"
            /\ task'[m].result.error # NoError
            /\ \A n \in Tasks \ {m} : task'[n] = task[n]
            /\ results' = results
            /\ main_pc' = main_pc

\* C2: a failure inside one task becomes that task's own ok=false result; the
\* step in which a task fails changes no sibling task, not the collected
\* results and not the batch, the batch is never aborted, and it returns with
\* every task's own result.
C2_FailureIsolated == []C2_Inv /\ [][C2_Step]_vars

C2_Witness ==
    /\ main_pc = "returned" /\ Len(results) = 2
    /\ ~results[1].ok /\ results[1].error.kind = "DownloadError"
    /\ results[2].ok

\* The place of a lookup in the fixed order of the cascade.
StepRank(tr, k) ==
    LET exactBefore == \E j \in 1..(k - 1) : tr[j].step = "exact_search" IN
    CASE tr[k].step = "steam_search"  -> 1
      [] tr[k].step = "catalog_by_id" -> 2
      [] tr[k].step = "mods_get"      -> IF exactBefore THEN 8 ELSE 3
      [] tr[k].step = "mods_post"     -> IF exactBefore THEN 9 ELSE 4
      [] tr[k].step = "mirror_first"  -> 5
      [] tr[k].step = "mirror_second" -> 6
      [] OTHER                        -> 7

Issued(tr, step) == \E k \in 1..Len(tr) : tr[k].step = step
ScopedEnded(tr, outs) == \E k \in 1..Len(tr) : StepRank(tr, k) <= 6 /\ tr[k].out \in outs
StepGave(tr, step, out) ==
    \E k \in 1..Len(tr) : tr[k].step = step /\ tr[k].out = out /\ StepRank(tr, k) <= 6

\* C3: the lookups of a cascade run are issued in the fixed order workshop
\* search, catalog lookup by id, mod-host, mirror, exact-match search
\* (then its mod-host); scoped lookups only with a scope; the catalog lookup only
\* for a workshop candidate; the mirror exactly when a candidate exists and the
\* mod-host step gave no URL; the exact-match search exactly when no scoped
\* lookup gave a URL; and nothing is issued after a lookup that gave a URL.
C3_CascadeOrder ==
    \A n \in Tasks :
        CascadeRan(n) =>
            LET tr == Lookups(task[n].trace) IN
            /\ tr # <<>>
            /\ \A k \in 1..(Len(tr) - 1) :
                  /\ StepRank(tr, k) < StepRank(tr, k + 1)
                  /\ tr[k].out \notin {"url", "raise"}
            /\ ScopePresent(appid) <=> tr[1].step = "steam_search"
            /\ \A k \in 1..Len(tr) : StepRank(tr, k) <= 6 => ScopePresent(appid)
            /\ Issued(tr, "catalog_by_id") <=> StepGave(tr, "steam_search", "found")
            /\ StepGave(tr, "mods_get", "none") \/ StepGave(tr, "mods_get", "url")
                  \/ StepGave(tr, "mods_get", "raise")
                  <=> StepGave(tr, "catalog_by_id", "found")
            /\ Issued(tr, "mirror_first") <=>
                  /\ StepGave(tr, "steam_search", "found")
                  /\ ~ScopedEnded(tr, {"url", "raise"})
                     \/ StepGave(tr, "mirror_first", "url")
                     \/ StepGave(tr, "mirror_first", "raise")
                     \/ StepGave(tr, "mirror_second", "url")
                     \/ StepGave(tr, "mirror_second", "raise")
                  /\ ~StepGave(tr, "mods_get", "url") /\ ~StepGave(tr, "mods_post", "url")
                  /\ ~StepGave(tr, "mods_get", "raise") /\ ~StepGave(tr, "mods_post", "raise")
                  /\ ~StepGave(tr, "catalog_by_id", "raise")
            /\ Issued(tr, "exact_search") <=> ~ScopedEnded(tr, {"url", "raise"})

C3_Witness ==
    \E n \in Tasks :
        /\ CascadeRan(n)
        /\ LET tr == Lookups(task[n].trace) IN
             /\ Len(tr) = 8
             /\ [k \in 1..8 |-> tr[k].step] =
                  <<"steam_search", "catalog_by_id", "mods_get", "mods_post",
                    "mirror_first", "mirror_second", "exact_search", "mods_get">>
             /\ tr[8].out = "url"

SameNormalized(title, search_text) ==
    normalize_exact_text(title) = normalize_exact_text(search_text)

\* C4: find_exact_catalog_result returns the first hit whose normalized title
\* equals the normalized keyword, and None when no title is equal; a title that
\* only contains the keyword is not selected.
C4_ExactMatchOnly ==
    x_pc = "returned" =>
        /\ x_ret \in 0..Len(x_results)
        /\ x_ret # 0 =>
              /\ SameNormalized(x_results[x_ret], x_search_text)
              /\ \A k \in 1..(x_ret - 1) : ~SameNormalized(x_results[k], x_search_text)
        /\ x_ret = 0 =>
              \A k \in 1..Len(x_results) : ~SameNormalized(x_results[k], x_search_text)

\* The keyword "a", a first hit "a A" that contains it and a second hit "A".
C4_Witness ==
    /\ x_pc = "returned"
    /\ x_search_text = <<"a">>
    /\ x_results = << <<"a", "A">>, <<"A">> >>
    /\ x_ret = 2

\* C5: a task whose cascade ran without any lookup giving a URL (and without
\* a lookup raising) ends ok=false with the no-exact-match reason and an empty
\* direct URL, and the downloader is never run for it.
C5_NoExactMatch ==
    \A n \in Tasks :
        (/\ Terminal(task[n])
         /\ CascadeRan(n)
         /\ \A k \in 1..Len(Lookups(task[n].trace)) :
               Lookups(task[n].trace)[k].out \notin {"url", "raise"})
        => /\ ~task[n].result.ok
           /\ task[n].result.error = NoExactMatch
           /\ task[n].result.url = ""
           /\ task[n].result.file = ""
           /\ DownloadCount(task[n].trace) = 0
           /\ files[n] = <<>>

\* Scope present, the workshop search finds no candidate, the catalog search
\* has no exactly matching hit.
C5_Witness ==
    \E n \in Tasks :
        /\ Terminal(task[n])
        /\ ScopePresent(appid)
        /\ [k \in 1..Len(task[n].trace) |-> task[n].trace[k].step]
             = <<"steam_search", "exact_search">>
        /\ task[n].trace[2].out = "none"
        /\ task[n].result.error = NoExactMatch

C7_RetryOverwrites ==
    \A n \in Tasks :
        LET t   == task[n]
            dls == Downloads(t.trace)
        IN  /\ t.pc = "streaming" => files[n] = Payload(Len(dls), dls[Len(dls)].bytes)
            /\ (\E k \in 1..Len(dls) : dls[k].out = "ok") =>
                  /\ Terminal(t)
                  /\ dls[Len(dls)].out = "ok"
                  /\ t.result.ok
                  /\ t.result.file = FilePath
                  /\ t.result.error = NoError
                  /\ files[n] = Payload(Len(dls), dls[Len(dls)].bytes)

\* retries = 1, the first attempt is cut after one chunk, the second succeeds.
C7_Witness ==
    \E n \in Tasks :
        LET dls == Downloads(task[n].trace) IN
        /\ retries = 1
        /\ Len(dls) = 2
        /\ dls[1].out = "cut" /\ dls[1].bytes = 1
        /\ dls[2].out = "ok" /\ dls[2].bytes = MaxChunks
        /\ task[n].result.ok

\* C8 as stated: the downloader is run for at most `retries` attempts.
C8_AtMostRetriesAttempts ==
    \A n \in Tasks : DownloadCount(task[n].trace) <= retries

\* C8 amended: the downloader is run for at most max(0, retries) + 1 attempts;
\* a task fails with a download error only when that many attempts have failed,
\* its error is the last attempt's, and no further attempt is made.
C8_AtMostRetriesPlusOne ==
    \A n \in Tasks :
        LET t == task[n]
            count == DownloadCount(t.trace)
        IN  /\ count <= Max(0, retries) + 1
            /\ (Terminal(t) /\ t.result.error.kind = "DownloadError") =>
                  /\ count = Max(0, retries) + 1
                  /\ t.result.error = DownloadError(count)
                  /\ \A k \in 1..Len(Downloads(t.trace)) :
                        Downloads(t.trace)[k].out \in {"connfail", "cut"}
                  /\ ~t.result.ok
                  /\ t.result.file = ""

C8_Witness ==
    \E n \in Tasks :
        /\ retries = 1
        /\ Terminal(task[n])
        /\ task[n].result.error = DownloadError(2)
        /\ DownloadCount(task[n].trace) = 2

HttpRequests == SelectSeq(h_log, LAMBDA e : e.ev = "request")

\* C9: one http_get / http_post call makes at most max(0, retries) + 1
\* requests; it returns the body of the first successful request and requests
\* nothing after it; it sleeps exactly between two requests, never after the
\* last; it raises only when every one of the max(0, retries) + 1 requests
\* failed, and raises the error of the last.
C9_TransportRetry ==
    h_pc # "idle" =>
        /\ Len(HttpRequests) <= Max(0, h_retries) + 1
        /\ \A k \in 1..Len(HttpRequests) : HttpRequests[k].attempt = k - 1
        /\ \A k \in 1..(Len(h_log) - 1) :
              /\ h_log[k].ev = "request" => h_log[k].err # 0 /\ h_log[k + 1].ev = "sleep"
              /\ h_log[k].ev = "sleep" => h_log[k + 1].ev = "request"
        /\ h_log # <<>> => h_log[1].ev = "request"
        /\ h_pc \in {"returned", "raised"} => h_log[Len(h_log)].ev = "request"
        /\ h_pc = "returned" <=> (h_log # <<>> /\ h_log[Len(h_log)].err = 0
                                   /\ h_log[Len(h_log)].ev = "request")
        /\ h_pc = "returned" => h_ret \in Bodies
        /\ h_pc # "returned" => h_ret = 0
        /\ h_pc = "raised" =>
              /\ Len(HttpRequests) = Max(0, h_retries) + 1
              /\ \A k \in 1..Len(HttpRequests) : HttpRequests[k].err # 0
              /\ h_last_error = h_log[Len(h_log)].err

C9_Witness ==
    /\ h_pc = "raised" /\ h_retries = 2 /\ h_method = "POST"
    /\ Len(h_log) = 5
    /\ h_log[1].err = 1 /\ h_log[5].err = 2 /\ h_last_error = 2

PhaseRank(phase) ==
    CASE phase = "queued"                   -> 0
      [] phase = "resolving"                -> 1
      [] phase \in {"start", "downloading"} -> 2
      [] OTHER                              -> 3

\* C10: the phase of a progress slot never moves backwards, and never leaves
\* a terminal phase for a non-terminal one.
C10_PhaseMonotone ==
    [][\A kw \in DOMAIN progress_state.tasks :
         PhaseRank(progress_state.tasks[kw].phase)
           <= PhaseRank(progress_state'.tasks[kw].phase)]_vars

Slot(n) == progress_state.tasks[keywords[n]]

C11_Inv ==
    /\ \A kw \in DOMAIN progress_state.tasks :
          progress_state.tasks[kw].phase \in {"queued", "start", "downloading", "done", "failed"}
    /\ \A n \in Tasks :
          \A k \in 1..Len(task[n].samples) :
              task[n].samples[k].phase = "downloading" =>
                  k > 1 /\ task[n].samples[1].phase = "start"

C11_Step ==
    \A n \in Tasks :
        (task[n].pc = "running" /\ task'[n] # task[n]) => progress_state' = progress_state

RunningTasks == {m \in Tasks : Running(task[m])}

\* C12: at most max(1, workers) tasks have started and not yet returned, and
\* a queued task is started only while fewer than that many are running, that
\* is only by a worker whose previous task has returned.
C12_BoundedPool ==
    /\ [](Cardinality(RunningTasks) <= Max(1, workers))
    /\ [][\A n \in Tasks :
            (task[n].pc = "queued" /\ task'[n].pc # "queued") =>
                /\ Cardinality(RunningTasks) < Max(1, workers)
                /\ Cardinality({m \in Tasks : task[m].pc # "queued"}) >= Max(1, workers) =>
                      \E m \in Tasks : Terminal(task[m])]_vars

\* workers = 0 gives a pool of one: the second task runs after the first one
\* has returned.
C12_Witness ==
    /\ workers = 0 /\ Len(keywords) = 2
    /\ Terminal(task[1]) /\ DownloadCount(task[1].trace) = 2
    /\ Running(task[2])

Middle(samples) == SubSeq(samples, 2, Len(samples) - 1)

\* C15: a download with a progress callback sends exactly one start sample,
\* with 0 bytes and before the first chunk is read, then only downloading
\* samples, and when it completes without error exactly one done sample, last.
C15_StartDoneBrackets ==
    \A n \in Tasks :
        LET t == task[n]
            sm == t.samples
        IN  IF ~HookPresent THEN sm = <<>>
            ELSE /\ t.pc = "streaming" =>
                       /\ sm # <<>>
                       /\ sm[1].phase = "start" /\ sm[1].downloaded = 0
                       /\ \A k \in 2..Len(sm) : sm[k].phase = "downloading"
                       /\ t.downloaded = 0 => sm = <<StartSample(t.total_size)>>
                 /\ (t.trace # <<>> /\ t.trace[Len(t.trace)].out = "ok") =>
                       /\ Len(sm) >= 2
                       /\ sm[1].phase = "start" /\ sm[1].downloaded = 0
                       /\ sm[Len(sm)].phase = "done"
                       /\ \A k \in 1..Len(Middle(sm)) : Middle(sm)[k].phase = "downloading"

\* A body of zero chunks: the start sample and the done sample only.
C15_Witness ==
    \E n \in Tasks :
        /\ task[n].result.ok
        /\ Len(task[n].samples) = 2
        /\ task[n].samples[2].phase = "done"

\* C16: the downloaded values of the samples of one downloader invocation
\* never decrease, and the done sample's value is the number of bytes written
\* to the destination file.
C16_SamplesMonotone ==
    \A n \in Tasks :
        LET sm == task[n].samples IN
        /\ \A k \in 1..(Len(sm) - 1) : sm[k].downloaded <= sm[k + 1].downloaded
        /\ \A k \in 1..Len(sm) :
              sm[k].phase = "done" =>
                  /\ sm[k].downloaded = Len(files[n])
                  /\ sm[k].downloaded = task[n].trace[Len(task[n].trace)].bytes

\* The last chunk sent no sample of its own: the done sample reports more
\* bytes than the sample before it.
C16_Witness ==
    \E n \in Tasks :
        LET sm == task[n].samples IN
        /\ Len(sm) = 3
        /\ sm[2].downloaded = 1
        /\ sm[3].phase = "done" /\ sm[3].downloaded = MaxChunks
        /\ Len(files[n]) = MaxChunks

\* C13: the stop signal is raised only when every task result has been
\* collected and counted; the reporter thread ends only after it; and a batch
\* with a reporter has logged one forced line, showing completed = total,
\* before it returns.
C13_ReporterNotStoppedEarly ==
    /\ reporter.stop =>
          /\ \A n \in Tasks : task[n].pc = "collected"
          /\ Len(results) = Len(keywords)
          /\ progress_state.completed = progress_state.total
    /\ reporter.thread = "exited" => reporter.stop
    /\ (reporter.thread # "none" /\ main_pc = "collect") =>
          reporter.thread \in {"wait", "render"}
    /\ (reporter.thread # "none" /\ main_pc \in {"summary", "returned"}) =>
          /\ batch_log.forced = 1
          /\ batch_log.final.force
          /\ batch_log.final.done = Len(keywords)
          /\ batch_log.final.total = Len(keywords)

C13_Witness ==
    /\ main_pc = "returned" /\ reporter.thread = "exited"
    /\ batch_log.final.done = 2 /\ batch_log.final.ok = 1 /\ batch_log.final.fail = 1

\* C14 as stated: every batch that returns has logged a forced progress line.
C14_AlwaysFinalEmission == main_pc = "returned" => batch_log.forced >= 1

\* C14 amended: a batch of more than one keyword that is not link-only logs
\* exactly one forced batch progress line before it returns, whatever the
\* signature and the time of the previous line; for any other batch
\* render_batch_progress logs nothing.
C14_FinalEmissionWhenReporting ==
    /\ [](IF (~only_get_link) /\ Len(keywords) > 1
          THEN main_pc = "returned" => batch_log.forced = 1 /\ batch_log.last.force
          ELSE batch_log = NoLog)
    /\ [][(main_pc = "force" /\ main_pc' # "force") =>
            /\ batch_log'.forced = batch_log.forced + 1
            /\ batch_log'.last = Emission(TRUE, progress_state)]_vars

\* The reporter had logged the same state just before: a render that is not
\* forced would have logged nothing.
C14_Witness ==
    /\ main_pc = "returned" /\ batch_log.forced = 1 /\ batch_log.repeat

\* C19: the batch report is written once by a batch of two or more keywords
\* and never by a batch of fewer than two.
C19_ReportIffMultiKeyword ==
    mapping.writes = IF main_pc = "returned" /\ Len(keywords) > 1 THEN 1 ELSE 0

\* C20: a written report is the header row followed by one row per result, in
\* the order of the results, with status ok exactly for the results with
\* ok = true; each keyword has as many rows as submitted occurrences.
C20_ReportRows ==
    mapping.writes > 0 =>
        /\ mapping.rows[1] = HeaderRow
        /\ Len(mapping.rows) = Len(keywords) + 1
        /\ \A k \in 1..Len(results) :
              /\ ~mapping.rows[k + 1].header
              /\ mapping.rows[k + 1].keyword = results[k].keyword
              /\ mapping.rows[k + 1].status = "ok" <=> results[k].ok
              /\ mapping.rows[k + 1].status = "failed" <=> ~results[k].ok
        /\ \A kw \in BatchKeywords :
              /\ Cardinality({k \in 2..Len(mapping.rows) : mapping.rows[k].keyword = kw})
                   = Cardinality({n \in Tasks : keywords[n] = kw})
              /\ Cardinality({k \in 2..Len(mapping.rows) :
                                 mapping.rows[k].keyword = kw /\ mapping.rows[k].status = "ok"})
                   = Cardinality({n \in Tasks : keywords[n] = kw /\ task[n].result.ok})

\* A duplicate keyword: one occurrence was resolved but its download failed,
\* the other succeeded.
C20_Witness ==
    /\ mapping.writes = 1 /\ Len(mapping.rows) = 3
    /\ keywords[1] = keywords[2]
    /\ mapping.rows[2].status = "failed" /\ results[1].url # ""
    /\ mapping.rows[3].status = "ok"

DownloadingSlots == {k \in SlotIds : a_tasks[k].phase = "downloading"}

KnownSlots == {k \in SlotIds : a_tasks[k].total_size > 0}

SpeedOf(k) == IF k \in DownloadingSlots THEN a_tasks[k].speed ELSE 0

\* C17: the aggregate speed is the sum of the speeds of the slots in phase
\* downloading; a queued, done or failed slot adds nothing to it, whatever
\* speed it still holds.
C17_AggregateSpeed ==
    a_pc = "rendered" => a_out.total_speed = SpeedOf(1) + SpeedOf(2) + SpeedOf(3)

\* Three downloading slots of sizes 100, 200, 300 and speeds 10, 20, 30.
C17_Witness ==
    /\ a_pc = "rendered"
    /\ \A k \in SlotIds :
          /\ a_tasks[k].phase = "downloading"
          /\ a_tasks[k].total_size = 100 * k
          /\ a_tasks[k].speed = 10 * k
    /\ a_out.total_speed = 60

RemainOf(k) == IF k \in KnownSlots THEN a_tasks[k].total_size - a_tasks[k].downloaded ELSE 0

\* C18: the aggregate ETA is the bytes that remain of the slots of known size
\* (their sizes minus their downloaded bytes) over the aggregate speed, and
\* there is an ETA only if the speed is above the noise floor and a size is known.
C18_AggregateEta ==
    a_pc = "rendered" =>
        a_out.eta = IF a_out.total_speed > 1 /\ KnownSlots # {}
                    THEN [num |-> Max(0, RemainOf(1) + RemainOf(2) + RemainOf(3)),
                          den |-> a_out.total_speed]
                    ELSE NoEta

GaveUrl(tr) == \E k \in 1..Len(tr) : tr[k].out = "url"

EmptyAfterCleaning(kw) == Strip(RemoveParens(Strip(kw))) = <<>>

\* C22: a task whose keyword is empty after stripping and removing the
\* parenthetical annotations ends, as soon as it has run, not ok with the
\* empty-keyword error: no lookup is issued, no download attempt is made, no
\* retry, and nothing is written.
C22_EmptyKeywordFailsFast ==
    \A n \in Tasks :
        (EmptyAfterCleaning(keywords[n]) /\ task[n].pc \notin {"queued", "running"}) =>
            /\ Terminal(task[n])
            /\ ~task[n].result.ok
            /\ task[n].result.error = EmptyKeyword
            /\ task[n].result.url = "" /\ task[n].result.file = ""
            /\ task[n].trace = <<>>
            /\ task[n].i = 0
            /\ files[n] = <<>>

\* An annotation only, with a scope and a retry budget.
C22_Witness ==
    \E n \in Tasks :
        /\ keywords[n] = KwNote /\ ScopePresent(appid) /\ retries = 1
        /\ Terminal(task[n]) /\ task[n].result.error = EmptyKeyword

Interrupted == main_pc \in {"shutdown", "exited"}

\* C23: when the operator has interrupted a batch whose reporter is running
\* and the process has exited, a forced progress line has been logged.
C23_ForcedRenderOnInterrupt ==
    (main_pc = "exited" /\ reporter.thread # "none") => batch_log.forced >= 1

\* C24: once the interrupt has been delivered, no task that is still queued
\* is started.
C24_NoStartAfterInterrupt ==
    [][Interrupted =>
         \A n \in Tasks : task[n].pc = "queued" => task'[n].pc = "queued"]_vars

ArchiveLinks(text) ==
    {k \in 1..Len(text) : text[k].tag \in {"href_dq", "href_sq"} /\ text[k].url.ends = ".zip"}

GatewayLinks(text) ==
    {k \in 1..Len(text) : text[k].tag \in {"href_dq", "href_sq"} /\ text[k].url.gateway}

WithScheme(url) == [url EXCEPT !.scheme = "https:"]

\* The first double-quoted link of S, the first single-quoted one if none is.
FirstByQuote(text, S) ==
    LET dq == {k \in S : text[k].tag = "href_dq"}
        T  == IF dq # {} THEN dq ELSE S
    IN  CHOOSE k \in T : \A j \in T : k <= j

Accessing(t) ==
    /\ thread_at[t] # <<>>
    /\ Head(thread_at[t]).do \in {"read", "write"}
    /\ Head(thread_at[t]).on \in SharedState

\* C26: a thread reads or writes the slots, the counters, the rotation
\* offset and reporter_meta only while it holds progress_lock, so no two
\* threads are ever inside a read-modify-write of that state at once.
C26_LockDiscipline ==
    /\ \A t \in Threads : Accessing(t) => progress_lock = t
    /\ \A t \in Threads : \A u \in Threads \ {t} : ~(Accessing(t) /\ Accessing(u))

\* The main thread is between reading and writing the counters while the
\* reporter and a pool thread wait for the lock.
C26_Witness ==
    /\ progress_lock = "main"
    /\ Accessing("main") /\ Head(thread_at["main"]) = Stmt("write", "counters")
    /\ thread_at["reporter"] # <<>> /\ Head(thread_at["reporter"]).do = "acquire"
    /\ thread_at["worker1"] = on_progress_body

\* A render of the reporter thread: render_batch_progress(force=False).
RenderStep == reporter.thread = "render" /\ reporter'.thread = "wait"

\* C27: a render that is not forced logs a line only if the signature differs
\* from that of the last line or the quiet interval has passed since the last
\* line, and it logs a line whenever the quiet interval has passed, with and
\* without active tasks.
C27_EmitsWhenIntervalPassed ==
    [][RenderStep =>
         /\ (batch_log' # batch_log \/ reporter'.last_sig # reporter.last_sig) =>
                (Signature(progress_state) # reporter.last_sig \/ reporter.old)
         /\ reporter.old => ~reporter'.old]_vars

\* C28: an emission lists at most 5 active slots, and every slot that stays
\* active is listed in some later emission, however the updates reorder the
\* slots and whichever renders are suppressed.
C28_EveryActiveSlotListed ==
    /\ [](Cardinality(r_show) <= limit)
    /\ \A k \in RotSlots : <>(k \in r_show)

\* The least multiple of 10 % that the download had not reached before its
\* next chunk, in tenths.
NextDecileOf(t) == (t.downloaded * 10) \div t.total_size + 1

\* The chunk read in this step brings the downloaded fraction to the next
\* unreached multiple of 10 % or past it.
ReachesDecile(n) ==
    /\ NextDecileOf(task[n]) <= 10
    /\ (task[n].downloaded + 1) * 10 >= NextDecileOf(task[n]) * task[n].total_size

SampleSent(n) == Len(task'[n].samples) = Len(task[n].samples) + 1

\* C29: with a known content length, a chunk that reaches or passes the next
\* unreached multiple of 10 % sends a downloading sample whatever the timer, a
\* chunk read when 1.2 s have passed since the last sample sends one whatever
\* the fraction, and a chunk for which neither holds sends none.
C29_SampleAtDecileOrInterval ==
    [][\A n \in Tasks : \A timer \in BOOLEAN :
         (DlChunkAt(n, timer) /\ HookPresent /\ task[n].total_size > 0) =>
            LET elapsed == timer \/ ~task[n].logged IN
            /\ ReachesDecile(n) => SampleSent(n)
            /\ elapsed => SampleSent(n)
            /\ (~ReachesDecile(n) /\ ~elapsed) => ~SampleSent(n)]_vars

\* The direct URL of the cascade came from the exact-match path.
ByExactPath(tr) ==
    \E k \in 1..Len(tr) : \E j \in (k + 1)..Len(tr) :
        tr[k].step = "exact_search" /\ tr[j].out = "url"

\* C30: an ok result carries the title and the workshop-page URL of the
\* candidate whose step gave the direct URL: those of the workshop candidate
\* if the scoped path gave it, and, if the exact-match path gave it after the
\* scoped path had found a workshop candidate, the title of the exact hit and
\* not the workshop URL of that candidate.
C30_MetadataOfSucceedingCandidate ==
    \A n \in Tasks :
        LET t == task[n] IN
        (Terminal(t) /\ t.result.ok /\ StepGave(t.trace, "steam_search", "found")) =>
            IF ByExactPath(t.trace)
            THEN /\ t.result.title = Lower(clean_keyword(keywords[n]))
                 /\ t.result.workshop_url # ItemUrl
            ELSE /\ t.result.title \in {SteamTitle, <<"C">>}
                 /\ t.result.workshop_url = ItemUrl

\* C31: under the lock completed = success + failed and completed <= total;
\* when run_batch has returned, completed = total = the number of submitted
\* keywords, the summary's success + failed is that number, and its success
\* is the number of ok results, which is the success counter.
C31_Counters ==
    /\ progress_state.completed = progress_state.success + progress_state.failed
    /\ progress_state.completed <= progress_state.total
    /\ main_pc = "returned" =>
          /\ progress_state.completed = progress_state.total
          /\ progress_state.total = Len(keywords)
          /\ Summary(results).success + Summary(results).failed = Len(keywords)
          /\ Summary(results).success = Cardinality({k \in 1..Len(results) : results[k].ok})
          /\ Summary(results).success = progress_state.success
          /\ Summary(results).failed = progress_state.failed

\* A batch of two keywords has returned with one success and one failure.
C31_Witness ==
    /\ main_pc = "returned"
    /\ Len(keywords) = 2
    /\ Summary(results) = [success |-> 1, failed |-> 1]
    /\ progress_state.completed = 2

\* A lookup of the scoped path raised: entry k of the trace, with no
\* exact-match search before it.
ScopedRaiseAt(tr, k) ==
    /\ tr[k].out = "raise"
    /\ \A j \in 1..k : tr[j].step # "exact_search"

\* C32: when a lookup of the scoped path raises, the task is finished at once,
\* not ok, with that lookup's error: the raising lookup is the last entry of
\* its trace, so no exact-match search and no download follows, and the result
\* has no URL and no file.
C32_ScopedRaiseFailsTask ==
    \A n \in Tasks :
        LET t == task[n] IN
        \A k \in 1..Len(t.trace) :
            ScopedRaiseAt(t.trace, k) =>
                /\ Terminal(t)
                /\ k = Len(t.trace)
                /\ ~t.result.ok
                /\ t.result.error = TransportError(t.trace[k].step)
                /\ t.result.url = "" /\ t.result.file = ""
                /\ ~Issued(t.trace, "exact_search")
                /\ DownloadCount(t.trace) = 0

\* The second POST to the mirror raised after the workshop search and the
\* catalog lookup had answered.
C32_Witness ==
    \E n \in Tasks :
        /\ Terminal(task[n])
        /\ Len(task[n].trace) >= 3
        /\ ScopedRaiseAt(task[n].trace, Len(task[n].trace))
        /\ task[n].trace[Len(task[n].trace)].step = "mirror_second"

\* C33: once every task of the batch has been collected, every progress slot
\* holds the phase done or failed and no slot counts as active, also when
\* duplicate keywords share a slot and whatever the order of the progress
\* callbacks and the collections was.
C33_SlotsTerminalWhenCollected ==
    (main_pc # "idle" /\ ExecutorDone) =>
        /\ \A kw \in DOMAIN progress_state.tasks :
              progress_state.tasks[kw].phase \in {"done", "failed"}
        /\ ActiveSlots(progress_state) = {}

\* Two tasks of the same keyword, one ok and one failed, have been collected
\* and the forced render is next.
C33_Witness ==
    /\ main_pc = "force"
    /\ ExecutorDone
    /\ Len(keywords) = 2 /\ keywords[1] = keywords[2]
    /\ Summary(results) = [success |-> 1, failed |-> 1]

\* C34: once the forced line of a batch has been logged it stays the last
\* progress line: the reporter thread logs nothing after it, also when the
\* join has timed out and the reporter renders after the forced render.
C34_ForcedLineIsLast ==
    batch_log.forced >= 1 =>
        /\ batch_log.forced = 1
        /\ batch_log.last = batch_log.final
        /\ batch_log.last.force

\* The join timed out: the forced line has been logged and run_batch has
\* returned while the reporter thread is still about to render.
C34_Witness ==
    /\ batch_log.forced = 1
    /\ main_pc = "returned"
    /\ reporter.thread = "render"
    /\ reporter.old

\* Thread t has statements left and its next one can run now.
CanStep(t) ==
    /\ thread_at[t] # <<>>
    /\ Head(thread_at[t]).do = "acquire" => Holder(Head(thread_at[t]).on) = "free"

WaitsFor(t, lock) ==
    /\ thread_at[t] # <<>>
    /\ Head(thread_at[t]) = Stmt("acquire", lock)

\* C35: no thread asks for progress_lock while it holds PRINT_LOCK; the
\* holder of PRINT_LOCK never waits for a lock, the holder of progress_lock
\* waits at most for PRINT_LOCK; and whenever some thread is inside a call,
\* some thread can run its next statement.
C35_NoDeadlock ==
    /\ \A t \in Threads : WaitsFor(t, "progress_lock") => PRINT_LOCK # t
    /\ \A t \in Threads : PRINT_LOCK = t => CanStep(t)
    /\ \A t \in Threads :
          (progress_lock = t /\ ~CanStep(t)) => WaitsFor(t, "PRINT_LOCK")
    /\ (\E t \in Threads : thread_at[t] # <<>>) => \E t \in Threads : CanStep(t)

\* The longest chain of waits: the reporter waits for progress_lock, which
\* the main thread holds while it waits for PRINT_LOCK, which a pool thread
\* holds while it prints; the other pool thread waits for PRINT_LOCK as well.
C35_Witness ==
    /\ WaitsFor("reporter", "progress_lock")
    /\ progress_lock = "main" /\ WaitsFor("main", "PRINT_LOCK")
    /\ PRINT_LOCK = "worker1" /\ Head(thread_at["worker1"]) = Stmt("write", "stdout")
    /\ WaitsFor("worker2", "PRINT_LOCK")

\* C36: run_batch returns: in the end every task has returned a result that
\* was collected, the reporter thread, if there is one, has ended, and the
\* main thread is past its last statement; and no task makes more than
\* max(0, retries) + 1 download attempts or repeats a lookup.
C36_BatchReturns ==
    /\ <>[](/\ main_pc = "returned"
            /\ reporter.thread \in {"none", "exited"}
            /\ \A n \in Tasks : task[n].pc = "collected")
    /\ [](\A n \in Tasks :
            /\ DownloadCount(task[n].trace) <= Max(0, retries) + 1
            /\ Len(Lookups(task[n].trace)) <= 8)

\* A batch of two keywords has returned after a task used its retry, and its
\* reporter thread has ended.
C36_Witness ==
    /\ main_pc = "returned"
    /\ reporter.thread = "exited"
    /\ Len(keywords) = 2
    /\ \E n \in Tasks : DownloadCount(task[n].trace) = 2 /\ task[n].result.ok

====
